---- MODULE Spec2Model ----
(***************************************************************************)
(* Model of the ranked search of nucleo-icons-cli (src/src/db/index.ts):   *)
(* NucleoDatabase.parseQuery, calculateRelevance and searchIcons over a    *)
(* read-only catalog of icons, sets and groups.                            *)
(*                                                                         *)
(* A JavaScript string is a sequence of one-character strings; SQL NULL    *)
(* and a missing option are kept apart from the empty string.              *)
(*                                                                         *)
(* index.ts holds two copies of the class; the model follows the later one *)
(* (lines 431-937).  Spec searches small catalogs in every row order,      *)
(* SpecLarge catalogs of more rows than one over-fetch, SpecParse applies  *)
(* parseQuery to raw strings, SpecCluster runs searchIconsClustered, and   *)
(* SpecCommands runs the six commands of the CLI (src/src/commands), one   *)
(* after the other, with the prompts of browse and fzf as steps.           *)
(***************************************************************************)
EXTENDS Integers, Sequences, FiniteSets, TLC

VARIABLES catalog, pc, query, options, positive, negative, fetched, results,
          clusters, env, cmd, run, ui

vars == <<catalog, pc, query, options, positive, negative, fetched, results,
          clusters, env, cmd, run, ui>>

\* the state of one search, and the state of one command run
searchVars == <<query, options, positive, negative, fetched, results, clusters>>

commandVars == <<env, cmd, run, ui>>

(***************************************************************************)
(* Bounds of the model.                                                    *)
(***************************************************************************)
MaxRows == 2
MaxTerms == 2
MaxLimit == 2
MaxQueryLen == 5

(***************************************************************************)
(* Characters and strings.                                                 *)
(***************************************************************************)
Null == <<"NULL">>

Whitespace == {" ", "\t"}

Min(a, b) == IF a < b THEN a ELSE b

LowerChar(c) ==
  CASE c = "A" -> "a"
    [] c = "B" -> "b"
    [] c = "C" -> "c"
    [] c = "E" -> "e"
    [] c = "I" -> "i"
    [] c = "L" -> "l"
    [] c = "N" -> "n"
    [] c = "U" -> "u"
    [] OTHER -> c

ToLowerCase(s) == [i \in 1..Len(s) |-> LowerChar(s[i])]

\* s.startsWith(p)
StartsWith(s, p) == Len(p) <= Len(s) /\ SubSeq(s, 1, Len(p)) = p

\* s.includes(p)
Includes(s, p) ==
  \E i \in 1..(Len(s) - Len(p) + 1) : SubSeq(s, i, i + Len(p) - 1) = p

\* x || '' for a nullable column
OrEmpty(x) == IF x = Null THEN <<>> ELSE x

(***************************************************************************)
(* The store's LIKE: '%' matches any run of characters, '_' exactly one,   *)
(* any other character itself, ASCII letters without regard to case.       *)
(* On NULL the result is NULL, which no WHERE clause accepts.              *)
(***************************************************************************)
RECURSIVE LikeFrom(_, _, _, _)
LikeFrom(p, i, s, j) ==
  IF i > Len(p) THEN j > Len(s)
  ELSE IF p[i] = "%" THEN \E k \in j..(Len(s) + 1) : LikeFrom(p, i + 1, s, k)
  ELSE IF j > Len(s) THEN FALSE
  ELSE IF p[i] = "_" \/ LowerChar(p[i]) = LowerChar(s[j])
       THEN LikeFrom(p, i + 1, s, j + 1)
  ELSE FALSE

\* column LIKE pattern, as a WHERE clause sees it
Like(x, p) == x # Null /\ LikeFrom(p, 1, x, 1)

\* column NOT LIKE pattern, as a WHERE clause sees it
NotLike(x, p) == x # Null /\ ~LikeFrom(p, 1, x, 1)

\* `%${term}%`
LikeTerm(term) == <<"%">> \o term \o <<"%">>

(***************************************************************************)
(* parseQuery                                                              *)
(***************************************************************************)
\* query.split(/\s+/): the pieces between maximal runs of whitespace,
\* empty pieces at either end included
RECURSIVE SplitFrom(_, _, _)
SplitFrom(s, i, cur) ==
  IF i > Len(s) THEN <<cur>>
  ELSE IF s[i] \in Whitespace
       THEN IF i < Len(s) /\ s[i + 1] \in Whitespace
            THEN SplitFrom(s, i + 1, cur)
            ELSE <<cur>> \o SplitFrom(s, i + 1, <<>>)
  ELSE SplitFrom(s, i + 1, Append(cur, s[i]))

SplitWhitespace(s) == SplitFrom(s, 1, <<>>)

NonEmptyTerm(t) == Len(t) > 0

\* the loop without the length test: a bare '-' becomes an empty exclusion
RECURSIVE ParseLoopNoLength(_, _, _, _)
ParseLoopNoLength(terms, i, pos, neg) ==
  IF i > Len(terms) THEN [positive |-> pos, negative |-> neg]
  ELSE IF StartsWith(terms[i], <<"-">>)
       THEN ParseLoopNoLength(terms, i + 1, pos, Append(neg, Tail(terms[i])))
  ELSE ParseLoopNoLength(terms, i + 1, Append(pos, terms[i]), neg)

\* the for loop of parseQuery over terms[i..]
RECURSIVE ParseLoop(_, _, _, _)
ParseLoop(terms, i, pos, neg) ==
  IF i > Len(terms) THEN [positive |-> pos, negative |-> neg]
  ELSE IF StartsWith(terms[i], <<"-">>) /\ Len(terms[i]) > 1
       THEN ParseLoop(terms, i + 1, pos, Append(neg, Tail(terms[i])))
  ELSE ParseLoop(terms, i + 1, Append(pos, terms[i]), neg)

parseQuery(q) ==
  LET terms == SelectSeq(SplitWhitespace(ToLowerCase(q)), NonEmptyTerm)
  IN  ParseLoop(terms, 1, <<>>, <<>>)

(***************************************************************************)
(* The catalog: the icons table is the state; the sets and groups tables   *)
(* are a fixed fixture.  A set without a group has group_id NullId; an     *)
(* icon whose set row is missing gets NULL titles from the LEFT JOINs.     *)
(***************************************************************************)
NullId == -1

GroupsTable ==
  { [id |-> 1, title |-> <<"B">>],
    [id |-> 2, title |-> <<"N", "u", "c", "l", "e", "o", " ", "U", "I">>],
    [id |-> 3, title |-> <<"N", "u", "c", "l", "e", "o", " ", "C", "o", "r", "e">>] }

SetsTable ==
  { [id |-> 0, title |-> <<"A">>, group_id |-> 1],
    [id |-> 1, title |-> <<"A", "b">>, group_id |-> 1],
    [id |-> 2, title |-> <<"b", "-">>, group_id |-> NullId],
    [id |-> 10, title |-> <<"U", "I", " ", "E", "s", "s", "e", "n", "t", "i", "a", "l">>,
     group_id |-> 2],
    [id |-> 11, title |-> <<"C", "o", "r", "e", " ", "L", "i", "n", "e">>,
     group_id |-> 3] }

IconPool ==
  { [id |-> 1, name |-> <<"a", "b">>, tags |-> <<"b">>, nucleo_tags |-> Null, set_id |-> 1],
    [id |-> 2, name |-> <<"a", "b">>, tags |-> Null, nucleo_tags |-> <<"A">>, set_id |-> 2],
    [id |-> 3, name |-> <<"b", "-", "a">>, tags |-> <<"A", "B">>, nucleo_tags |-> <<>>, set_id |-> 3],
    [id |-> 4, name |-> <<"A">>, tags |-> <<"B", "-">>, nucleo_tags |-> Null, set_id |-> 0],
    [id |-> 5, name |-> <<"a", "-", "b">>, tags |-> Null, nucleo_tags |-> Null, set_id |-> 1] }

\* LEFT JOIN sets s ON i.set_id = s.id
SetTitleOf(set_id) ==
  IF \E s \in SetsTable : s.id = set_id
  THEN (CHOOSE s \in SetsTable : s.id = set_id).title
  ELSE Null

\* s.group_id of the joined set row
SetGroupIdOf(set_id) ==
  IF \E s \in SetsTable : s.id = set_id
  THEN (CHOOSE s \in SetsTable : s.id = set_id).group_id
  ELSE NullId

\* LEFT JOIN groups g ON s.group_id = g.id
GroupTitleOf(set_id) ==
  IF \E g \in GroupsTable : g.id = SetGroupIdOf(set_id)
  THEN (CHOOSE g \in GroupsTable : g.id = SetGroupIdOf(set_id)).title
  ELSE Null

\* one row of the SELECT of searchIcons
JoinedRow(icon) ==
  [id |-> icon.id, name |-> icon.name, tags |-> icon.tags,
   nucleo_tags |-> icon.nucleo_tags, set_id |-> icon.set_id,
   set_title |-> SetTitleOf(icon.set_id),
   group_title |-> GroupTitleOf(icon.set_id)]

(***************************************************************************)
(* calculateRelevance                                                      *)
(***************************************************************************)
\* the chain with plain ifs: every rule that applies is added
TermScoreAdditive(icon, term) ==
  LET name == ToLowerCase(icon.name)
      tags == ToLowerCase(OrEmpty(icon.tags))
      nucleoTags == ToLowerCase(OrEmpty(icon.nucleo_tags))
      setTitle == ToLowerCase(OrEmpty(icon.set_title))
      groupTitle == ToLowerCase(OrEmpty(icon.group_title))
  IN  (IF name = term THEN 100 ELSE 0)
      + (IF StartsWith(name, term \o <<"-">>) \/ StartsWith(name, term) THEN 50 ELSE 0)
      + (IF Includes(name, term) THEN 30 ELSE 0)
      + (IF Includes(tags, term) \/ Includes(nucleoTags, term) THEN 10 ELSE 0)
      + (IF Includes(setTitle, term) \/ Includes(groupTitle, term) THEN 5 ELSE 0)

\* the if / else-if chain of one loop iteration
TermScore(icon, term) ==
  LET name == ToLowerCase(icon.name)
      tags == ToLowerCase(OrEmpty(icon.tags))
      nucleoTags == ToLowerCase(OrEmpty(icon.nucleo_tags))
      setTitle == ToLowerCase(OrEmpty(icon.set_title))
      groupTitle == ToLowerCase(OrEmpty(icon.group_title))
  IN  IF name = term THEN 100
      ELSE IF StartsWith(name, term \o <<"-">>) \/ StartsWith(name, term) THEN 50
      ELSE IF Includes(name, term) THEN 30
      ELSE IF Includes(tags, term) \/ Includes(nucleoTags, term) THEN 10
      ELSE IF Includes(setTitle, term) \/ Includes(groupTitle, term) THEN 5
      ELSE 0

\* the loop over positiveTerms[i..], carrying score and matchCount
RECURSIVE RelevanceLoop(_, _, _, _, _)
RelevanceLoop(icon, terms, i, score, matchCount) ==
  IF i > Len(terms) THEN [score |-> score, matchCount |-> matchCount]
  ELSE LET termScore == TermScore(icon, terms[i])
       IN  IF termScore > 0
           THEN RelevanceLoop(icon, terms, i + 1, score + termScore, matchCount + 1)
           ELSE RelevanceLoop(icon, terms, i + 1, score, matchCount)

\* the score without the multiplication by matchCount
calculateRelevanceUnboosted(icon, positiveTerms) ==
  RelevanceLoop(icon, positiveTerms, 1, 0, 0).score

calculateRelevance(icon, positiveTerms) ==
  LET r == RelevanceLoop(icon, positiveTerms, 1, 0, 0)
  IN  IF Len(positiveTerms) > 1 /\ r.matchCount > 0
      THEN r.score * r.matchCount
      ELSE r.score

\* termMatchesIcon
termMatchesIcon(icon, term) ==
  \/ Includes(ToLowerCase(icon.name), term)
  \/ Includes(ToLowerCase(OrEmpty(icon.tags)), term)
  \/ Includes(ToLowerCase(OrEmpty(icon.nucleo_tags)), term)
  \/ Includes(ToLowerCase(OrEmpty(icon.set_title)), term)
  \/ Includes(ToLowerCase(OrEmpty(icon.group_title)), term)

(***************************************************************************)
(* searchIcons                                                             *)
(***************************************************************************)
Undefined == <<"undefined">>

UndefinedNum == -2

DefaultLimit == 50

NoFilters == [set |-> Undefined, groupId |-> UndefinedNum, setId |-> UndefinedNum]

WithLimit(f, l) ==
  [set |-> f.set, groupId |-> f.groupId, setId |-> f.setId, limit |-> l]

NoOptions == WithLimit(NoFilters, UndefinedNum)

OverFetch == 20

\* one parenthesised clause of the positive part: the term in any column
TermClause(row, term) ==
  \/ Like(row.name, LikeTerm(term))
  \/ Like(row.tags, LikeTerm(term))
  \/ Like(row.nucleo_tags, LikeTerm(term))
  \/ Like(row.set_title, LikeTerm(term))
  \/ Like(row.group_title, LikeTerm(term))

\* termClauses.join(' AND '): every term has to match
PositiveClauseAllTerms(row, pos) ==
  Len(pos) > 0 => \A i \in 1..Len(pos) : TermClause(row, pos[i])

\* the clause pushed also when positive is empty
PositiveClauseUnguarded(row, pos) ==
  \E i \in 1..Len(pos) : TermClause(row, pos[i])

\* termClauses.join(' OR '), pushed only when positive is not empty
PositiveClause(row, pos) ==
  Len(pos) > 0 => \E i \in 1..Len(pos) : TermClause(row, pos[i])

\* an exclusion that looks at the name only
NegativeClauseNameOnly(row, term) == NotLike(row.name, LikeTerm(term))

\* an exclusion without the IS NULL alternatives
NegativeClauseNoNull(row, term) ==
  /\ NotLike(row.name, LikeTerm(term))
  /\ NotLike(row.tags, LikeTerm(term))
  /\ NotLike(row.nucleo_tags, LikeTerm(term))
  /\ NotLike(row.set_title, LikeTerm(term))
  /\ NotLike(row.group_title, LikeTerm(term))

\* the clause pushed for one negative term
NegativeClause(row, term) ==
  /\ NotLike(row.name, LikeTerm(term))
  /\ (row.tags = Null \/ NotLike(row.tags, LikeTerm(term)))
  /\ (row.nucleo_tags = Null \/ NotLike(row.nucleo_tags, LikeTerm(term)))
  /\ (row.set_title = Null \/ NotLike(row.set_title, LikeTerm(term)))
  /\ (row.group_title = Null \/ NotLike(row.group_title, LikeTerm(term)))

\* if (set): a string option is truthy unless it is missing or empty
TruthyStr(v) == v # Undefined /\ v # <<>>

\* if (groupId), if (setId): a number option is truthy unless missing or 0
TruthyNum(v) == v # UndefinedNum /\ v # 0

\* the three optional AND clauses after the WHERE
StructuralClauses(row, o) ==
  /\ TruthyStr(o.set) => Like(row.set_title, LikeTerm(o.set))
  /\ TruthyNum(o.groupId) =>
       (SetGroupIdOf(row.set_id) # NullId /\ SetGroupIdOf(row.set_id) = o.groupId)
  /\ TruthyNum(o.setId) => row.set_id = o.setId

\* the whole WHERE of the statement
Where(row, pos, neg, o) ==
  /\ PositiveClause(row, pos)
  /\ \A i \in 1..Len(neg) : NegativeClause(row, neg[i])
  /\ StructuralClauses(row, o)

\* a.name.localeCompare(b.name): letters are compared first without regard
\* to case, punctuation before letters; on a tie lower case comes first
CollationRank(c) ==
  CASE c = "\t" -> 0
    [] c = " " -> 1
    [] c = "_" -> 2
    [] c = "-" -> 3
    [] c = "%" -> 4
    [] c \in {"a", "A"} -> 5
    [] c \in {"b", "B"} -> 6
    [] OTHER -> 7

CaseRank(c) == IF c \in {"A", "B"} THEN 1 ELSE 0

\* the order of two sequences of ranks: -1, 0 or 1
RECURSIVE CompareRanks(_, _, _)
CompareRanks(a, b, i) ==
  IF i > Len(a) /\ i > Len(b) THEN 0
  ELSE IF i > Len(a) THEN -1
  ELSE IF i > Len(b) THEN 1
  ELSE IF a[i] < b[i] THEN -1
  ELSE IF a[i] > b[i] THEN 1
  ELSE CompareRanks(a, b, i + 1)

CollationKey(s) == [i \in 1..Len(s) |-> CollationRank(s[i])]

CaseKey(s) == [i \in 1..Len(s) |-> CaseRank(s[i])]

localeCompare(a, b) ==
  IF a = b THEN 0
  ELSE IF CompareRanks(CollationKey(a), CollationKey(b), 1) # 0
  THEN CompareRanks(CollationKey(a), CollationKey(b), 1)
  ELSE CompareRanks(CaseKey(a), CaseKey(b), 1)

\* a comparator without the tie-break by name
CompareRelevanceOnly(a, b) == b.relevance - a.relevance

\* a comparator that orders by name alone
CompareNameOnly(a, b) == localeCompare(a.name, b.name)

\* the comparator handed to withRelevance.sort
Compare(a, b) ==
  IF b.relevance # a.relevance
  THEN b.relevance - a.relevance
  ELSE localeCompare(a.name, b.name)

\* Array.prototype.sort is stable: x goes after every element that does
\* not compare greater than it
RECURSIVE InsertSorted(_, _)
InsertSorted(x, sorted) ==
  IF sorted = <<>> THEN <<x>>
  ELSE IF Compare(x, Head(sorted)) < 0 THEN <<x>> \o sorted
  ELSE <<Head(sorted)>> \o InsertSorted(x, Tail(sorted))

RECURSIVE SortFrom(_, _, _)
SortFrom(rows, i, sorted) ==
  IF i > Len(rows) THEN sorted
  ELSE SortFrom(rows, i + 1, InsertSorted(rows[i], sorted))

Sort(rows) == SortFrom(rows, 1, <<>>)

\* arr.slice(0, n) for n >= 0
Slice(arr, n) == SubSeq(arr, 1, Min(n, Len(arr)))

\* const { ..., limit = 50 } = options
LimitOf(o) == IF o.limit = UndefinedNum THEN DefaultLimit ELSE o.limit

\* stmt.all(...params): the rows of the store that pass the WHERE, in the
\* store's order, cut by LIMIT limit * 20
FetchRows(store, pos, neg, o) ==
  LET Passes(row) == Where(row, pos, neg, o)
  IN  Slice(SelectSeq([i \in 1..Len(store) |-> JoinedRow(store[i])], Passes),
            LimitOf(o) * OverFetch)

\* results.map(icon => ({ ...icon, relevance }))
WithRelevance(rows, pos) ==
  [i \in 1..Len(rows) |->
     [id |-> rows[i].id, name |-> rows[i].name, tags |-> rows[i].tags,
      nucleo_tags |-> rows[i].nucleo_tags, set_id |-> rows[i].set_id,
      set_title |-> rows[i].set_title, group_title |-> rows[i].group_title,
      relevance |-> calculateRelevance(rows[i], pos)]]

\* the ranking without the final slice
RankRowsUnsliced(rows, pos, o) == Sort(WithRelevance(rows, pos))

\* the part of searchIcons after the fetch
RankRows(rows, pos, o) == Slice(Sort(WithRelevance(rows, pos)), LimitOf(o))

\* the statements of searchIcons after stmt.all
SearchFetched(parsed, rows, o) ==
  [positive |-> parsed.positive, negative |-> parsed.negative,
   fetched |-> rows, results |-> RankRows(rows, parsed.positive, o)]

\* the statements of searchIcons after parseQuery
SearchParsed(store, parsed, o) ==
  SearchFetched(parsed, FetchRows(store, parsed.positive, parsed.negative, o), o)

searchIcons(store, q, o) == SearchParsed(store, parseQuery(q), o)

(***************************************************************************)
(* getIconPath and searchIconsClustered                                    *)
(***************************************************************************)
Digits == <<"0", "1", "2", "3", "4", "5", "6", "7", "8", "9">>

\* String(n) for a non-negative integer
RECURSIVE ToStr(_)
ToStr(n) ==
  IF n < 10 THEN <<Digits[n + 1]>>
  ELSE ToStr(n \div 10) \o <<Digits[(n % 10) + 1]>>

\* NUCLEO_ICONS_PATH, the fixed root of the asset files
IconsPath == <<"~", "/", "s", "e", "t", "s">>

\* a path that leaves the icon's id out
getIconPathSetOnly(icon) ==
  IconsPath \o <<"/">> \o ToStr(icon.set_id) \o <<".", "s", "v", "g">>

\* join(NUCLEO_ICONS_PATH, String(icon.set_id), `${icon.id}.svg`)
getIconPath(icon) ==
  IconsPath \o <<"/">> \o ToStr(icon.set_id)
            \o <<"/">> \o ToStr(icon.id) \o <<".", "s", "v", "g">>

\* a || b on nullable strings: the empty string is falsy too
OrElse(a, b) == IF a = Null \/ a = <<>> THEN b ELSE a

\* `Set ${icon.set_id}`
SetLabel(icon) == <<"S", "e", "t", " ">> \o ToStr(icon.set_id)

\* a label that passes over the set title: icon.group_title || `Set ...`
GroupLabelNoSetTitle(icon) == OrElse(icon.group_title, SetLabel(icon))

\* icon.group_title || icon.set_title || `Set ${icon.set_id}`
GroupLabel(icon) == OrElse(icon.group_title, OrElse(icon.set_title, SetLabel(icon)))

\* the style descriptor pushed for an icon
StyleOf(icon) ==
  [group_title |-> GroupLabel(icon),
   set_title |-> OrElse(icon.set_title, SetLabel(icon)),
   id |-> icon.id, set_id |-> icon.set_id, path |-> getIconPath(icon)]

\* a test that looks at the group label only
hasStyleGroupOnly(existing, icon) ==
  \E k \in 1..Len(existing.styles) :
    existing.styles[k].group_title = GroupLabel(icon)

\* existing.styles.some(s => s.group_title === groupTitle
\*                          && s.set_title === icon.set_title)
hasStyle(existing, icon) ==
  \E k \in 1..Len(existing.styles) :
    /\ existing.styles[k].group_title = GroupLabel(icon)
    /\ existing.styles[k].set_title = icon.set_title

\* the position of the cluster of a name in the Map, 0 when there is none
ClusterIndex(cs, name) ==
  IF \E k \in 1..Len(cs) : cs[k].name = name
  THEN CHOOSE k \in 1..Len(cs) : cs[k].name = name
  ELSE 0

\* a new cluster that starts from relevance 0
NewClusterUnscored(icon) ==
  [name |-> icon.name,
   tags |-> OrElse(icon.tags, OrElse(icon.nucleo_tags, <<>>)),
   styles |-> <<StyleOf(icon)>>,
   relevance |-> 0]

\* the else branch: a new cluster for the first icon of a name
NewCluster(icon) ==
  [name |-> icon.name,
   tags |-> OrElse(icon.tags, OrElse(icon.nucleo_tags, <<>>)),
   styles |-> <<StyleOf(icon)>>,
   relevance |-> icon.relevance]

\* a merge in which the last icon of a name sets the tags
MergeIntoLastTags(existing, icon) ==
  [name |-> existing.name,
   tags |-> OrElse(icon.tags, OrElse(icon.nucleo_tags, <<>>)),
   styles |-> IF hasStyle(existing, icon) THEN existing.styles
              ELSE Append(existing.styles, StyleOf(icon)),
   relevance |-> IF icon.relevance > existing.relevance
                 THEN icon.relevance ELSE existing.relevance]

\* a merge that puts the new style before the styles seen so far
MergeIntoPrepend(existing, icon) ==
  [name |-> existing.name,
   tags |-> existing.tags,
   styles |-> IF hasStyle(existing, icon) THEN existing.styles
              ELSE <<StyleOf(icon)>> \o existing.styles,
   relevance |-> IF icon.relevance > existing.relevance
                 THEN icon.relevance ELSE existing.relevance]

\* the if branch: one more icon of a name that has a cluster
MergeInto(existing, icon) ==
  [name |-> existing.name,
   tags |-> existing.tags,
   styles |-> IF hasStyle(existing, icon) THEN existing.styles
              ELSE Append(existing.styles, StyleOf(icon)),
   relevance |-> IF icon.relevance > existing.relevance
                 THEN icon.relevance ELSE existing.relevance]

\* the for loop over results[i..]; cs is the Map in insertion order
RECURSIVE ClusterLoop(_, _, _)
ClusterLoop(pool, i, cs) ==
  IF i > Len(pool) THEN cs
  ELSE LET k == ClusterIndex(cs, pool[i].name)
       IN  IF k > 0
           THEN ClusterLoop(pool, i + 1, [cs EXCEPT ![k] = MergeInto(cs[k], pool[i])])
           ELSE ClusterLoop(pool, i + 1, Append(cs, NewCluster(pool[i])))

\* options.limit || 50
LimitOrDefault(o) ==
  IF o.limit = UndefinedNum \/ o.limit = 0 THEN DefaultLimit ELSE o.limit

PoolFactor == 5

\* { ...options, limit: (options.limit || 50) * 5 }
PoolOptions(o) ==
  [set |-> o.set, groupId |-> o.groupId, setId |-> o.setId,
   limit |-> LimitOrDefault(o) * PoolFactor]

\* the statements of searchIconsClustered after the pool has been searched
ClusterPoolRows(found, o) ==
  [positive |-> found.positive, negative |-> found.negative,
   fetched |-> found.fetched, results |-> found.results,
   clusters |-> Slice(Sort(ClusterLoop(found.results, 1, <<>>)), LimitOrDefault(o))]

searchIconsClustered(store, q, o) ==
  ClusterPoolRows(searchIcons(store, q, PoolOptions(o)), o)

(***************************************************************************)
(* The other statements of NucleoDatabase.                                 *)
(***************************************************************************)
\* a < b in the store's BINARY collation (ORDER BY of the store): by the
\* code units of the characters, listed in CharOrder in their order
RECURSIVE StrLess(_, _)
StrLess(a, b) ==
  LET CharOrder ==
        <<"\t", " ", "%", ",", "-", ".", "/",
          "0", "1", "2", "3", "4", "5", "6", "7", "8", "9",
          "A", "B", "C", "E", "I", "L", "N", "S", "U", "_",
          "a", "b", "c", "d", "e", "g", "h", "i", "l", "n", "o", "r", "s", "t",
          "u", "v", "w", "x", "~">>
      CharCode(c) == CHOOSE i \in 1..Len(CharOrder) : CharOrder[i] = c
  IN  IF b = <<>> THEN FALSE
      ELSE IF a = <<>> THEN TRUE
      ELSE IF Head(a) # Head(b) THEN CharCode(Head(a)) < CharCode(Head(b))
      ELSE StrLess(Tail(a), Tail(b))

\* ORDER BY title over the rows of a table
RECURSIVE OrderByTitle(_)
OrderByTitle(rows) ==
  IF rows = {} THEN <<>>
  ELSE LET least == CHOOSE x \in rows : \A y \in rows : ~StrLess(y.title, x.title)
       IN  <<least>> \o OrderByTitle(rows \ {least})

\* getGroups
getGroups == OrderByTitle(GroupsTable)

\* getUngroupedSets
getUngroupedSets == OrderByTitle({s \in SetsTable : s.group_id = NullId})

\* getSets(groupId)
getSets(groupId) ==
  IF TruthyNum(groupId)
  THEN OrderByTitle({s \in SetsTable : s.group_id = groupId})
  ELSE OrderByTitle(SetsTable)

\* rows.find(r => r.title.toLowerCase().includes(name.toLowerCase())):
\* a sequence of no row or one row
FindByTitle(rows, name) ==
  LET Matches(r) == Includes(ToLowerCase(r.title), ToLowerCase(name))
  IN  Slice(SelectSeq(rows, Matches), 1)

\* ORDER BY i.name over icons
RECURSIVE OrderByName(_)
OrderByName(rows) ==
  IF rows = {} THEN <<>>
  ELSE LET least == CHOOSE x \in rows :
                      \A y \in rows :
                        /\ ~StrLess(y.name, x.name)
                        /\ (y.name = x.name => x.id <= y.id)
       IN  <<least>> \o OrderByName(rows \ {least})

\* getIconsFromSet(setId, limit): in a row the set is joined, the group
\* is not
getIconsFromSet(store, setId, limit) ==
  LET SetRow(icon) ==
        [id |-> icon.id, name |-> icon.name, tags |-> icon.tags,
         nucleo_tags |-> icon.nucleo_tags, set_id |-> icon.set_id,
         set_title |-> SetTitleOf(icon.set_id), group_title |-> Null]
      inSet == {k \in 1..Len(store) : store[k].set_id = setId}
  IN  Slice(OrderByName({SetRow(store[i]) : i \in inSet}), limit)

\* a lookup with LIKE '%name%' in the place of the equality
getIconByNameLike(store, name, o) ==
  LET Matches(icon) ==
        /\ Like(icon.name, LikeTerm(name))
        /\ TruthyNum(o.groupId) =>
             (SetGroupIdOf(icon.set_id) # NullId /\ SetGroupIdOf(icon.set_id) = o.groupId)
        /\ TruthyNum(o.setId) => icon.set_id = o.setId
      found == Slice(SelectSeq(store, Matches), 1)
  IN  [i \in 1..Len(found) |-> JoinedRow(found[i])]

\* getIconByName(name, { groupId, setId }): no row or the first row
getIconByName(store, name, o) ==
  LET Matches(icon) ==
        /\ icon.name = name
        /\ TruthyNum(o.groupId) =>
             (SetGroupIdOf(icon.set_id) # NullId /\ SetGroupIdOf(icon.set_id) = o.groupId)
        /\ TruthyNum(o.setId) => icon.set_id = o.setId
      found == Slice(SelectSeq(store, Matches), 1)
  IN  [i \in 1..Len(found) |-> JoinedRow(found[i])]

\* getIconById(id): no row or the row
getIconById(store, id) ==
  LET Matches(icon) == icon.id = id
      found == Slice(SelectSeq(store, Matches), 1)
  IN  [i \in 1..Len(found) |-> JoinedRow(found[i])]

(***************************************************************************)
(* One run of a command: the store handle, what was printed and written.   *)
(* env.fault is the one thing that fails in this run, if any: "open" the   *)
(* store cannot be opened, "query" its statements throw, "image" the       *)
(* encoder rejects, "write" the destination cannot be written, "fzf" the   *)
(* finder is not installed, "spawn" it cannot be started.  env.assets are  *)
(* the ids of the icons whose asset file is on disk.                       *)
(***************************************************************************)
\* a method of the store and the group and set it was asked for
Call(op, groupId, setId) == [op |-> op, groupId |-> groupId, setId |-> setId]

\* the run of a command at its start: no handle, nothing called, printed
\* or written
NewRun ==
  [handle |-> "none", closes |-> 0, stale |-> FALSE, threw |-> FALSE,
   out |-> {}, written |-> {},
   lastCall |-> Call("none", UndefinedNum, UndefinedNum)]

\* throw
Throw(r) == [r EXCEPT !.threw = TRUE]

\* console.log / errorOut of the reports ms: out holds the kinds of report
\* a run has printed (problems, results, confirmations), not the listings,
\* previews and progress lines
Say(r, ms) == [r EXCEPT !.out = @ \cup ms]

\* getNucleoDb(): new NucleoDatabase(), whose constructor throws when the
\* store cannot be opened
getNucleoDb(e, r) ==
  IF e.fault = "open" THEN Throw(r) ELSE [r EXCEPT !.handle = "open"]

\* db.close()
close(r) == [r EXCEPT !.handle = "closed", !.closes = @ + 1]

\* this.db.prepare(sql) and stmt.all / stmt.get of one method of the store:
\* throws when the statement fails or the connection is not open
StoreCall(e, r, call) ==
  [r EXCEPT !.lastCall = call,
            !.stale = @ \/ r.handle # "open",
            !.threw = e.fault = "query" \/ r.handle # "open"]

\* if (options.group) { ... }: the name of a style group, else of an
\* ungrouped set, else a report and return
ResolveGroup(e, r, name) ==
  IF ~TruthyStr(name)
  THEN [run |-> r, groupId |-> UndefinedNum, setId |-> UndefinedNum, done |-> FALSE]
  ELSE LET r1 == StoreCall(e, r, Call("getGroups", UndefinedNum, UndefinedNum))
           group == FindByTitle(getGroups, name)
           r2 == StoreCall(e, r1, Call("getUngroupedSets", UndefinedNum, UndefinedNum))
           set == FindByTitle(getUngroupedSets, name)
       IN  IF r1.threw
           THEN [run |-> r1, groupId |-> UndefinedNum, setId |-> UndefinedNum, done |-> TRUE]
           ELSE IF Len(group) > 0
           THEN [run |-> r1, groupId |-> group[1].id, setId |-> UndefinedNum, done |-> FALSE]
           ELSE IF r2.threw
           THEN [run |-> r2, groupId |-> UndefinedNum, setId |-> UndefinedNum, done |-> TRUE]
           ELSE IF Len(set) > 0
           THEN [run |-> r2, groupId |-> UndefinedNum, setId |-> set[1].id, done |-> FALSE]
           ELSE [run |-> Say(r2, {"UnknownGroup", "AvailableGroups"}),
                 groupId |-> UndefinedNum, setId |-> UndefinedNum, done |-> TRUE]

NaN == -3

\* parseInt(s, 10) of an option: the leading digits, NaN when there is none
ParseInt(s) ==
  LET IsDigit(c) == \E d \in 1..10 : Digits[d] = c
      DigitOf(c) == (CHOOSE d \in 1..10 : Digits[d] = c) - 1
      RECURSIVE ParseDigits(_, _)
      ParseDigits(i, n) ==
        IF i > Len(s) \/ ~IsDigit(s[i]) THEN n
        ELSE ParseDigits(i + 1, n * 10 + DigitOf(s[i]))
  IN  IF s = <<>> \/ ~IsDigit(s[1]) THEN NaN ELSE ParseDigits(1, 0)

\* what a command run leaves of a search it did not make
NoSearch ==
  [positive |-> <<>>, negative |-> <<>>, fetched |-> <<>>, results |-> <<>>,
   clusters |-> <<>>]

\* the try block of the search command
searchBody(e, r, store, c) ==
  LET g == ResolveGroup(e, r, c.group)
      o == [set |-> c.set, groupId |-> g.groupId, setId |-> g.setId,
            limit |-> ParseInt(c.limit)]
      op == IF c.expand THEN "searchIcons" ELSE "searchIconsClustered"
      r3 == StoreCall(e, g.run, Call(op, g.groupId, g.setId))
      flat == searchIcons(store, c.query, o)
      found == IF c.expand
               THEN [positive |-> flat.positive, negative |-> flat.negative,
                     fetched |-> flat.fetched, results |-> flat.results,
                     clusters |-> <<>>]
               ELSE searchIconsClustered(store, c.query, o)
      shown == IF c.expand THEN found.results ELSE found.clusters
  IN  IF g.done THEN [run |-> g.run, options |-> NoOptions, found |-> NoSearch]
      ELSE IF r3.threw THEN [run |-> r3, options |-> o, found |-> NoSearch]
      ELSE [run |-> Say(r3, IF Len(shown) = 0 THEN {"NoIconsFound"} ELSE {}),
            options |-> o, found |-> found]

\* the action of the search command: try { ... } finally { db.close() }
searchCommand(e, store, c) ==
  LET r0 == getNucleoDb(e, NewRun)
      body == searchBody(e, r0, store, c)
  IN  IF r0.threw THEN [run |-> r0, options |-> NoOptions, found |-> NoSearch]
      ELSE [run |-> close(body.run), options |-> body.options, found |-> body.found]

\* the action of the sets command
setsCommand(e, c) ==
  LET r0 == getNucleoDb(e, NewRun)
      first == IF c.groups THEN "getGroups" ELSE "getSets"
      second == IF c.groups THEN "getUngroupedSets" ELSE "getStats"
      r1 == StoreCall(e, r0, Call(first, UndefinedNum, UndefinedNum))
      r2 == StoreCall(e, r1, Call(second, UndefinedNum, UndefinedNum))
  IN  IF r0.threw THEN r0
      ELSE IF r1.threw THEN close(r1)
      ELSE IF r2.threw THEN close(r2)
      ELSE close(r2)

\* existsSync(destDir) || mkdirSync(destDir), then the write of the file;
\* mkdirSync and the write throw when the destination cannot be written
WriteFile(e, r, done) ==
  LET exists == e.destExists \/ "dir" \in r.written
      made == IF exists THEN r
              ELSE Say([r EXCEPT !.written = @ \cup {"dir"}], {"CreatedDirectory"})
  IN  IF e.fault = "write" THEN Throw(r)
      ELSE Say([made EXCEPT !.written = @ \cup {"file"}], done)

\* the lookup of the copy command: by --id, else by name and --group
copyLookup(e, r, store, c) ==
  LET id == ParseInt(c.id)
      byId == StoreCall(e, r, Call("getIconById", UndefinedNum, UndefinedNum))
      g == ResolveGroup(e, r, c.group)
      byName == StoreCall(e, g.run, Call("getIconByName", g.groupId, g.setId))
      named == getIconByName(store, c.name, g)
  IN  IF TruthyStr(c.id)
      THEN IF id = NaN THEN [run |-> Say(r, {"InvalidId"}), icon |-> <<>>]
           ELSE IF byId.threw THEN [run |-> byId, icon |-> <<>>]
           ELSE IF Len(getIconById(store, id)) = 0
                THEN [run |-> Say(byId, {"NotFound"}), icon |-> <<>>]
           ELSE [run |-> byId, icon |-> getIconById(store, id)]
      ELSE IF ~TruthyStr(c.name) THEN [run |-> Say(r, {"NameRequired"}), icon |-> <<>>]
      ELSE IF g.done THEN [run |-> g.run, icon |-> <<>>]
      ELSE IF byName.threw THEN [run |-> byName, icon |-> <<>>]
      ELSE IF Len(named) = 0
           THEN [run |-> Say(byName, {"NotFound", "TrySearching"}), icon |-> <<>>]
      ELSE [run |-> byName, icon |-> named]

\* the copy command from getIconPath on: the source must exist; PNG goes
\* through the encoder; the result goes to stdout or to the destination
copyExport(e, r, icon, c) ==
  IF icon.id \notin e.assets THEN Say(r, {"AssetMissing"})
  ELSE IF c.png /\ e.fault = "image" THEN Throw(r)
  ELSE IF c.stdout THEN Say(r, {"Data"})
  ELSE WriteFile(e, r, {"Copied"})

\* catch (error) { console.error('Error copying icon:', error) }
CatchAll(r) ==
  IF r.threw THEN Say([r EXCEPT !.threw = FALSE], {"ErrorCopying"}) ELSE r

\* a copy command that closes the handle at the end of the try block
\* only, not on the early returns
copyCommandNoFinally(e, store, c) ==
  LET r0 == getNucleoDb(e, NewRun)
      looked == copyLookup(e, r0, store, c)
  IN  IF r0.threw THEN r0
      ELSE IF looked.run.threw \/ Len(looked.icon) = 0 THEN CatchAll(looked.run)
      ELSE close(CatchAll(copyExport(e, looked.run, looked.icon[1], c)))

\* the action of the copy command: try { ... } catch { ... } finally { close }
copyCommand(e, store, c) ==
  LET r0 == getNucleoDb(e, NewRun)
      looked == copyLookup(e, r0, store, c)
  IN  IF r0.threw THEN r0
      ELSE IF looked.run.threw \/ Len(looked.icon) = 0 THEN close(CatchAll(looked.run))
      ELSE close(CatchAll(copyExport(e, looked.run, looked.icon[1], c)))

\* the action of the preview command: the renderers catch their own errors
previewCommand(e, store, c) ==
  LET r0 == getNucleoDb(e, NewRun)
      r1 == StoreCall(e, r0, Call("getIconByName", UndefinedNum, UndefinedNum))
      icon == getIconByName(store, c.name, NoFilters)
  IN  IF r0.threw THEN r0
      ELSE IF r1.threw THEN close(r1)
      ELSE IF Len(icon) = 0 THEN close(Say(r1, {"NotFound", "TrySearching"}))
      ELSE close(r1)

(***************************************************************************)
(* The interactive commands: browse and fzf.                               *)
(***************************************************************************)
PAGE_SIZE == 15

BrowseLimit == 500

SetLimit == 1000

FzfLimit == 10000

\* { type: 'none', group: null, set: null }
NoFilter == [type |-> "none", group |-> <<>>, set |-> <<>>]

\* the state of the prompts: the filter of mainMenu, the BrowseState of
\* browseIcons (for fzf: the loaded icons) and the icon that was picked
NoUi ==
  [filter |-> NoFilter, currentSet |-> <<>>, searchQuery |-> <<>>,
   icons |-> <<>>, page |-> 0, selected |-> <<>>]

\* getFilterQueryOptions
getFilterQueryOptions(filter) ==
  IF filter.type = "group" /\ filter.group # <<>>
  THEN [groupId |-> filter.group[1].id, setId |-> UndefinedNum]
  ELSE IF filter.type = "set" /\ filter.set # <<>>
  THEN [groupId |-> UndefinedNum, setId |-> filter.set[1].id]
  ELSE [groupId |-> UndefinedNum, setId |-> UndefinedNum]

\* { ...filterOpts, limit }
FilterOptions(filter, limit) ==
  [set |-> Undefined, groupId |-> getFilterQueryOptions(filter).groupId,
   setId |-> getFilterQueryOptions(filter).setId, limit |-> limit]

\* the head of the loop of mainMenu: the statistics of the filter
MenuTop(e, r, u) ==
  IF u.filter.type = "set" /\ u.filter.set # <<>> THEN r
  ELSE StoreCall(e, r, Call("getStats", getFilterQueryOptions(u.filter).groupId,
                            UndefinedNum))

\* Math.ceil(state.icons.length / PAGE_SIZE)
TotalPages(u) == (Len(u.icons) + PAGE_SIZE - 1) \div PAGE_SIZE

\* state.icons.slice(start, start + PAGE_SIZE)
PageIcons(u) ==
  SubSeq(u.icons, Min(u.page * PAGE_SIZE, Len(u.icons)) + 1,
         Min(u.page * PAGE_SIZE + PAGE_SIZE, Len(u.icons)))

\* a new BrowseState over icons
Browsing(u, set, q, icons) ==
  [filter |-> u.filter, currentSet |-> set, searchQuery |-> q,
   icons |-> icons, page |-> 0, selected |-> <<>>]

\* copyIconToProject after its two prompts: mkdirSync of a missing
\* destination, then copyFileSync, which throws when the source is missing
copyIconToProject(e, r, icon) ==
  LET exists == e.destExists \/ "dir" \in r.written
      made == IF exists THEN r ELSE [r EXCEPT !.written = @ \cup {"dir"}]
  IN  IF e.fault = "write" THEN Throw(r)
      ELSE IF icon.id \notin e.assets THEN Throw(made)
      ELSE Say([made EXCEPT !.written = @ \cup {"file"}], {"Copied"})

\* copyIcon of the fzf command, after its two prompts
copyIcon(e, r, icon) ==
  LET exists == e.destExists \/ "dir" \in r.written
      made == IF exists THEN r ELSE [r EXCEPT !.written = @ \cup {"dir"}]
  IN  IF e.fault = "write" THEN Throw(r)
      ELSE IF icon.id \notin e.assets THEN Throw(made)
      ELSE Say([made EXCEPT !.written = @ \cup {"file"}], {"Copied"})

\* the try block of the fzf command up to the first runFzf
fzfLoad(e, r, store, c) ==
  LET r1 == IF TruthyStr(c.group)
            THEN StoreCall(e, r, Call("getGroups", UndefinedNum, UndefinedNum))
            ELSE r
      group == IF TruthyStr(c.group) THEN FindByTitle(getGroups, c.group) ELSE <<>>
      groupId == IF Len(group) > 0 THEN group[1].id ELSE UndefinedNum
      r2 == IF TruthyStr(c.set)
            THEN StoreCall(e, r1, Call("getSets", UndefinedNum, UndefinedNum))
            ELSE r1
      set == IF TruthyStr(c.set) THEN FindByTitle(getSets(UndefinedNum), c.set) ELSE <<>>
      setId == IF Len(set) > 0 THEN set[1].id ELSE UndefinedNum
      r3 == StoreCall(e, r2, Call("searchIcons", groupId, setId))
      o == [set |-> Undefined, groupId |-> groupId, setId |-> setId, limit |-> FzfLimit]
  IN  IF r1.threw THEN [run |-> r1, icons |-> <<>>]
      ELSE IF r2.threw THEN [run |-> r2, icons |-> <<>>]
      ELSE IF r3.threw THEN [run |-> r3, icons |-> <<>>]
      ELSE [run |-> r3, icons |-> searchIcons(store, <<>>, o).results]

(***************************************************************************)
(* Inputs                                                                  *)
(***************************************************************************)
\* the store's rows in the order the store returns them
RECURSIVE SeqsOver(_, _)
SeqsOver(S, n) ==
  IF n = 0 THEN {<<>>}
  ELSE LET shorter == SeqsOver(S, n - 1)
       IN  shorter \cup {Append(s, x) : s \in {t \in shorter : Len(t) = n - 1}, x \in S}

NoRepeat(s) == \A i, j \in 1..Len(s) : i # j => s[i] # s[j]

SmallCatalogs == {s \in SeqsOver(IconPool, MaxRows) : NoRepeat(s)}

\* catalogs larger than one over-fetch at limit 1: OverFetch variants of
\* one icon, alone or with one icon of the pool before or after them
FillerRows ==
  [i \in 1..OverFetch |->
     [id |-> 100 + i, name |-> <<"a", "b", "b">>, tags |-> Null,
      nucleo_tags |-> Null, set_id |-> 1]]

LargeCatalogs ==
  {FillerRows}
    \cup {Append(FillerRows, x) : x \in IconPool}
    \cup {<<x>> \o FillerRows : x \in IconPool}


\* more variants of the pool's icons: one in the set of icon 1, one without
\* a set row like icon 3, one in a second set of the group of icon 1
VariantPool ==
  { [id |-> 6, name |-> <<"a", "b">>, tags |-> <<"a">>, nucleo_tags |-> Null, set_id |-> 1],
    [id |-> 7, name |-> <<"b", "-", "a">>, tags |-> Null, nucleo_tags |-> <<"b">>, set_id |-> 3],
    [id |-> 8, name |-> <<"a", "b">>, tags |-> Null, nucleo_tags |-> Null, set_id |-> 0],
    [id |-> 9, name |-> <<"a">>, tags |-> Null, nucleo_tags |-> Null, set_id |-> 3] }

ClusterCatalogs == {s \in SeqsOver(IconPool \cup VariantPool, MaxRows) : NoRepeat(s)}

ArrowRight == <<"a", "r", "r", "o", "w", "-", "r", "i", "g", "h", "t">>

\* "direction,navigate"
DirectionNavigate ==
  <<"d", "i", "r", "e", "c", "t", "i", "o", "n", ",",
    "n", "a", "v", "i", "g", "a", "t", "e">>

\* one icon stored once per style family, with different curated tags
ArrowCatalog ==
  << [id |-> 21, name |-> ArrowRight, tags |-> DirectionNavigate,
      nucleo_tags |-> Null, set_id |-> 10],
     [id |-> 22, name |-> ArrowRight, tags |-> SubSeq(DirectionNavigate, 1, 9),
      nucleo_tags |-> Null, set_id |-> 11] >>

ArrowQuery == <<"a", "r", "r", "o", "w">>

\* the words a query is typed from: letters in both cases, an exclusion and
\* a bare '-'; none holds a LIKE wildcard ('%', '_'), whose effect on the
\* store's matching is kept apart from the properties checked over these
QueryWords ==
  { <<"a">>, <<"B">>, <<"a", "b">>, <<"-", "a", "b">>, <<"-">> }

RECURSIVE JoinWords(_)
JoinWords(ws) ==
  IF ws = <<>> THEN <<>>
  ELSE IF Len(ws) = 1 THEN ws[1]
  ELSE ws[1] \o <<" ">> \o JoinWords(Tail(ws))

Queries == {JoinWords(ws) : ws \in SeqsOver(QueryWords, MaxTerms)}

\* the queries of at most one word
WordQueries == {<<>>} \cup QueryWords

FilterChoices ==
  { NoFilters,
    [NoFilters EXCEPT !.set = <<>>],
    [NoFilters EXCEPT !.set = <<"a">>],
    [NoFilters EXCEPT !.groupId = 0],
    [NoFilters EXCEPT !.groupId = 1],
    [NoFilters EXCEPT !.setId = 0],
    [NoFilters EXCEPT !.setId = 1],
    [set |-> <<"b">>, groupId |-> 1, setId |-> 1] }

LimitChoices == {UndefinedNum} \cup 0..MaxLimit

\* every filter choice with the default limit, and every limit without filters
OptionChoices ==
  {WithLimit(f, UndefinedNum) : f \in FilterChoices}
    \cup {WithLimit(NoFilters, l) : l \in LimitChoices}

\* clustered, limit 10, no filters
ArrowOptions == WithLimit(NoFilters, 10)

\* --group names: none, empty, a style group, an ungrouped set, unknown
GroupNames == {Undefined, <<>>, <<"b">>, <<"-">>, <<"x">>}

\* [name] of copy and <name> of preview: none, an icon, no icon
IconNames == {Undefined, <<"a", "b">>, <<"b">>}

NoCommand ==
  [command |-> "none", query |-> <<>>, group |-> Undefined, set |-> Undefined,
   limit |-> <<"2", "0">>, expand |-> FALSE, groups |-> FALSE,
   id |-> Undefined, name |-> Undefined, png |-> FALSE, stdout |-> FALSE]

\* the catalogs the commands run on: four icons, or more than one page
CommandCatalogs ==
  {[i \in 1..4 |-> CHOOSE icon \in IconPool : icon.id = i], FillerRows}

\* what a run meets: the one thing that fails, if any; the icons whose
\* asset file is on disk (none, or all); whether the destination exists
Environments ==
  LET IdsOf(store) == {store[i].id : i \in 1..Len(store)}
  IN  [fault : {"none", "open", "query", "image", "write", "fzf", "spawn"},
       assets : {{}, UNION {IdsOf(store) : store \in CommandCatalogs}},
       destExists : BOOLEAN]

\* raw query strings, for parseQuery alone
QueryChars == {"a", "A", "-", " ", "\t"}

RawQueries == SeqsOver(QueryChars, MaxQueryLen)

(***************************************************************************)
(* The state machine: one search per invocation of the command.            *)
(***************************************************************************)
\* no command is running and nothing fails
NoRun ==
  /\ env = [fault |-> "none", assets |-> {}, destExists |-> FALSE]
  /\ cmd = NoCommand
  /\ run = NewRun
  /\ ui = NoUi

Init ==
  /\ catalog \in SmallCatalogs
  /\ pc = "idle"
  /\ query = <<>>
  /\ options = NoOptions
  /\ positive = <<>>
  /\ negative = <<>>
  /\ fetched = <<>>
  /\ results = <<>>
  /\ clusters = <<>>
  /\ NoRun

\* one call of searchIcons with a query of Q and options of O
Search(Q, O) ==
  /\ pc = "idle"
  /\ \E q \in Q, o \in O :
       \E r \in {searchIcons(catalog, q, o)} :
           /\ query' = q
           /\ options' = o
           /\ positive' = r.positive
           /\ negative' = r.negative
           /\ fetched' = r.fetched
           /\ results' = r.results
  /\ pc' = "searched"
  /\ UNCHANGED <<catalog, clusters, commandVars>>

SearchIcons == Search(Queries, OptionChoices)

\* the command is over (db.close()); the next invocation starts afresh
Close ==
  /\ pc \in {"searched", "parsed", "clustered"}
  /\ pc' = "idle"
  /\ query' = <<>>
  /\ options' = NoOptions
  /\ positive' = <<>>
  /\ negative' = <<>>
  /\ fetched' = <<>>
  /\ results' = <<>>
  /\ clusters' = <<>>
  /\ UNCHANGED <<catalog, commandVars>>

Next == SearchIcons \/ Close

Spec == Init /\ [][Next]_vars

(***************************************************************************)
(* The same search over catalogs of more rows than one over-fetch.         *)
(***************************************************************************)
InitLarge ==
  /\ catalog \in LargeCatalogs
  /\ pc = "idle"
  /\ query = <<>>
  /\ options = NoOptions
  /\ positive = <<>>
  /\ negative = <<>>
  /\ fetched = <<>>
  /\ results = <<>>
  /\ clusters = <<>>
  /\ NoRun

\* queries whose one term holds a LIKE wildcard
WildcardQueries == { <<"_">>, <<"a", "%", "b">> }

SearchIconsLarge == Search(WordQueries \cup WildcardQueries, OptionChoices)

NextLarge == SearchIconsLarge \/ Close

SpecLarge == InitLarge /\ [][NextLarge]_vars

(***************************************************************************)
(* searchIconsClustered over catalogs that hold variants of one icon.      *)
(***************************************************************************)
InitCluster ==
  /\ catalog \in ClusterCatalogs \cup {ArrowCatalog}
  /\ pc = "idle"
  /\ query = <<>>
  /\ options = NoOptions
  /\ positive = <<>>
  /\ negative = <<>>
  /\ fetched = <<>>
  /\ results = <<>>
  /\ clusters = <<>>
  /\ NoRun

\* one call of searchIconsClustered; results holds the pool it clusters; the
\* query "a -" meets the styles of one name through different fields
SearchIconsClustered ==
  /\ pc = "idle"
  /\ \E q \in WordQueries \cup {ArrowQuery, <<"a", " ", "-">>},
        o \in OptionChoices \cup {ArrowOptions} :
       \E r \in {searchIconsClustered(catalog, q, o)} :
           /\ query' = q
           /\ options' = o
           /\ positive' = r.positive
           /\ negative' = r.negative
           /\ fetched' = r.fetched
           /\ results' = r.results
           /\ clusters' = r.clusters
  /\ pc' = "clustered"
  /\ UNCHANGED <<catalog, commandVars>>

NextCluster == SearchIconsClustered \/ Close

SpecCluster == InitCluster /\ [][NextCluster]_vars

(***************************************************************************)
(* The commands of the CLI, one run after the other.                       *)
(***************************************************************************)
InitCommands ==
  /\ catalog \in CommandCatalogs
  /\ pc = "idle"
  /\ query = <<>>
  /\ options = NoOptions
  /\ positive = <<>>
  /\ negative = <<>>
  /\ fetched = <<>>
  /\ results = <<>>
  /\ clusters = <<>>
  /\ env \in Environments
  /\ cmd = NoCommand
  /\ run = NewRun
  /\ ui = NoUi

\* nucleo search <query> [-g] [-s] [-l] [-e]; --limit as typed, '20' being
\* the default of the option
SearchCommand ==
  /\ pc = "idle"
  /\ \E q \in {<<>>, <<"a">>, <<"-", "a", "b">>}, g \in GroupNames,
        st \in {Undefined, <<"a">>}, l \in {<<"1">>, <<"2", "0">>}, x \in BOOLEAN :
       \E c \in {[NoCommand EXCEPT !.command = "search", !.query = q, !.group = g,
                                   !.set = st, !.limit = l, !.expand = x]} :
         \E r \in {searchCommand(env, catalog, c)} :
           /\ cmd' = c
           /\ run' = r.run
           /\ query' = q
           /\ options' = r.options
           /\ positive' = r.found.positive
           /\ negative' = r.found.negative
           /\ fetched' = r.found.fetched
           /\ results' = r.found.results
           /\ clusters' = r.found.clusters
  /\ pc' = "done"
  /\ UNCHANGED <<catalog, env, ui>>

\* nucleo sets [-g]
SetsCommand ==
  /\ pc = "idle"
  /\ \E gs \in BOOLEAN :
       \E c \in {[NoCommand EXCEPT !.command = "sets", !.groups = gs]} :
         /\ cmd' = c
         /\ run' = setsCommand(env, c)
  /\ pc' = "done"
  /\ UNCHANGED <<catalog, env, ui, searchVars>>

\* nucleo copy [name] [--id] [-g] [--png] [--stdout]; --id as typed: none,
\* an icon of the catalog, no icon, not a number
CopyCommand ==
  /\ pc = "idle"
  /\ \E n \in IconNames, i \in {Undefined, <<"1">>, <<"9">>, <<"x">>},
        g \in GroupNames, png \in BOOLEAN, so \in BOOLEAN :
       \E c \in {[NoCommand EXCEPT !.command = "copy", !.name = n, !.id = i,
                                   !.group = g, !.png = png, !.stdout = so]} :
         /\ cmd' = c
         /\ run' = copyCommand(env, catalog, c)
  /\ pc' = "done"
  /\ UNCHANGED <<catalog, env, ui, searchVars>>

\* nucleo preview <name>
PreviewCommand ==
  /\ pc = "idle"
  /\ \E n \in IconNames \ {Undefined} :
       \E c \in {[NoCommand EXCEPT !.command = "preview", !.name = n]} :
         /\ cmd' = c
         /\ run' = previewCommand(env, catalog, c)
  /\ pc' = "done"
  /\ UNCHANGED <<catalog, env, ui, searchVars>>

\* the process is over; the next command starts afresh
Exit ==
  /\ pc = "done"
  /\ pc' = "idle"
  /\ cmd' = NoCommand
  /\ run' = NewRun
  /\ ui' = NoUi
  /\ query' = <<>>
  /\ options' = NoOptions
  /\ positive' = <<>>
  /\ negative' = <<>>
  /\ fetched' = <<>>
  /\ results' = <<>>
  /\ clusters' = <<>>
  /\ UNCHANGED <<catalog, env>>

\* a step of an interactive command ends at the next prompt, or, when it
\* threw, in the finally block of the command: the error is thrown on and
\* the state of the prompts is gone
Continue(r, u, next) ==
  /\ run' = IF r.threw THEN close(r) ELSE r
  /\ ui' = IF r.threw THEN NoUi ELSE u
  /\ pc' = IF r.threw THEN "done" ELSE next

\* continue: back to the head of the loop of mainMenu
ToMenu(r, u) == Continue(MenuTop(env, r, u), u, "menu")

\* nucleo browse: getNucleoDb(), then mainMenu up to its first prompt
BrowseCommand ==
  /\ pc = "idle"
  /\ cmd' = [NoCommand EXCEPT !.command = "browse"]
  /\ \E r0 \in {getNucleoDb(env, NewRun)} :
       IF r0.threw
       THEN run' = r0 /\ ui' = NoUi /\ pc' = "done"
       ELSE ToMenu(r0, NoUi)
  /\ UNCHANGED <<catalog, env, searchVars>>

\* mainChoice === 'exit'
MenuExit ==
  /\ pc = "menu"
  /\ run' = close(Say(run, {"Goodbye"}))
  /\ pc' = "done"
  /\ ui' = NoUi
  /\ UNCHANGED <<catalog, env, cmd, searchVars>>

\* mainChoice === 'filter': selectStyleFilter up to its prompt
MenuFilter ==
  /\ pc = "menu"
  /\ \E r1 \in {StoreCall(env, run, Call("getGroups", UndefinedNum, UndefinedNum))} :
       IF r1.threw THEN Continue(r1, ui, "filterPrompt")
       ELSE Continue(StoreCall(env, r1, Call("getUngroupedSets", UndefinedNum, UndefinedNum)),
                     ui, "filterPrompt")
  /\ UNCHANGED <<catalog, env, cmd, searchVars>>

\* the choices of selectStyleFilter: back, clear, the first group, the
\* first ungrouped set
FilterSelections ==
  {[action |-> "back", group |-> <<>>, set |-> <<>>],
   [action |-> "clear", group |-> <<>>, set |-> <<>>]}
    \cup {[action |-> "group", group |-> <<getGroups[1]>>, set |-> <<>>]}
    \cup {[action |-> "set", group |-> <<>>, set |-> <<getUngroupedSets[1]>>]}

\* a choice of a specialty set that keeps the group of the filter so far
NewFilterKeepGroup(current, selection) ==
  CASE selection.action = "back" -> current
    [] selection.action = "clear" -> NoFilter
    [] selection.action = "group" ->
         [type |-> "group", group |-> selection.group, set |-> <<>>]
    [] selection.action = "set" ->
         [type |-> "set", group |-> current.group, set |-> selection.set]

\* the return value of selectStyleFilter
NewFilter(current, selection) ==
  CASE selection.action = "back" -> current
    [] selection.action = "clear" -> NoFilter
    [] selection.action = "group" ->
         [type |-> "group", group |-> selection.group, set |-> <<>>]
    [] selection.action = "set" ->
         [type |-> "set", group |-> <<>>, set |-> selection.set]

\* the answer to the prompt of selectStyleFilter, and the rest of the
\* 'filter' branch of mainMenu
FilterAnswer ==
  /\ pc = "filterPrompt"
  /\ \E selection \in FilterSelections :
       LET filter == NewFilter(ui.filter, selection)
       IN  ToMenu(run, [ui EXCEPT !.filter = filter])
  /\ UNCHANGED <<catalog, env, cmd, searchVars>>

\* mainChoice === 'search': the prompt for the query
MenuSearch ==
  /\ pc = "menu"
  /\ pc' = "queryPrompt"
  /\ UNCHANGED <<catalog, env, cmd, run, ui, searchVars>>

\* the answer to 'Search query:' and the rest of the 'search' branch
QueryAnswer ==
  /\ pc = "queryPrompt"
  /\ \E q \in {<<"a">>, <<"x">>} :
       LET o == FilterOptions(ui.filter, BrowseLimit)
           r1 == StoreCall(env, run, Call("searchIcons", o.groupId, o.setId))
       IN  \E icons \in {searchIcons(catalog, q, o).results} :
             IF r1.threw THEN Continue(r1, ui, "menu")
             ELSE IF Len(icons) = 0 THEN ToMenu(Say(r1, {"NoIconsFound"}), ui)
             ELSE Continue(r1, Browsing(ui, <<>>, q, icons), "list")
  /\ UNCHANGED <<catalog, env, cmd, searchVars>>

\* mainChoice === 'sets': the sets of the filter, up to the prompt
MenuSets ==
  /\ pc = "menu"
  /\ ui.filter.type # "set"
  /\ Continue(StoreCall(env, run, Call("getSets", getFilterQueryOptions(ui.filter).groupId,
                                        UndefinedNum)),
              ui, "setPrompt")
  /\ UNCHANGED <<catalog, env, cmd, searchVars>>

\* the answer to 'Select an icon set': back, or a set to browse (the first
\* or the last of the list)
SetAnswer ==
  /\ pc = "setPrompt"
  /\ \/ ToMenu(run, ui)
     \/ \E k \in {1, Len(getSets(getFilterQueryOptions(ui.filter).groupId))} :
          LET set == getSets(getFilterQueryOptions(ui.filter).groupId)[k]
          IN  Continue(StoreCall(env, run, Call("getIconsFromSet", UndefinedNum, set.id)),
                       Browsing(ui, <<set>>, <<>>, getIconsFromSet(catalog, set.id, SetLimit)),
                       "list")
  /\ UNCHANGED <<catalog, env, cmd, searchVars>>

\* mainChoice === 'all'
MenuAll ==
  /\ pc = "menu"
  /\ LET o == FilterOptions(ui.filter, BrowseLimit)
     IN  \E icons \in {searchIcons(catalog, <<>>, o).results} :
           Continue(StoreCall(env, run, Call("searchIcons", o.groupId, o.setId)),
                    Browsing(ui, IF ui.filter.type = "set" THEN ui.filter.set ELSE <<>>,
                             <<>>, icons),
                    "list")
  /\ UNCHANGED <<catalog, env, cmd, searchVars>>

\* answer === 'prev'
ListPrev ==
  /\ pc = "list"
  /\ ui.page > 0
  /\ ui' = [ui EXCEPT !.page = @ - 1]
  /\ UNCHANGED <<catalog, env, cmd, run, pc, searchVars>>

\* a list that offers 'Next page' on the last page as well
ListNextOnLastPage ==
  /\ pc = "list"
  /\ ui.page < TotalPages(ui)
  /\ ui' = [ui EXCEPT !.page = @ + 1]
  /\ UNCHANGED <<catalog, env, cmd, run, pc, searchVars>>

\* answer === 'next'
ListNext ==
  /\ pc = "list"
  /\ ui.page < TotalPages(ui) - 1
  /\ ui' = [ui EXCEPT !.page = @ + 1]
  /\ UNCHANGED <<catalog, env, cmd, run, pc, searchVars>>

\* answer === 'back': browseIcons returns and mainMenu loops
ListBack ==
  /\ pc = "list"
  /\ ToMenu(run, ui)
  /\ UNCHANGED <<catalog, env, cmd, searchVars>>

\* answer === 'exit': browseIcons returns and mainMenu breaks
ListExit ==
  /\ pc = "list"
  /\ run' = close(run)
  /\ pc' = "done"
  /\ ui' = NoUi
  /\ UNCHANGED <<catalog, env, cmd, searchVars>>

\* an icon of the page (the first or the last): showIconPreview, then the prompt for the action
ListSelect ==
  /\ pc = "list"
  /\ \E k \in {1, Len(PageIcons(ui))} \cap 1..Len(PageIcons(ui)) :
       ui' = [ui EXCEPT !.selected = <<PageIcons(ui)[k]>>]
  /\ pc' = "action"
  /\ UNCHANGED <<catalog, env, cmd, run, searchVars>>

\* action === 'copy': the first prompt of copyIconToProject / copyIcon
ActionCopy ==
  /\ pc = "action"
  /\ pc' = "destPrompt"
  /\ UNCHANGED <<catalog, env, cmd, run, ui, searchVars>>

\* any other action of browseIcons: back to the list
ActionBack ==
  /\ pc = "action"
  /\ cmd.command = "browse"
  /\ pc' = "list"
  /\ ui' = [ui EXCEPT !.selected = <<>>]
  /\ UNCHANGED <<catalog, env, cmd, run, searchVars>>

\* the answer to 'Copy to directory:'
CopyDestination ==
  /\ pc = "destPrompt"
  /\ pc' = "filePrompt"
  /\ UNCHANGED <<catalog, env, cmd, run, ui, searchVars>>

\* the answer to 'Filename:' and the copy itself; then the loop goes on
CopyFilename ==
  /\ pc = "filePrompt"
  /\ IF cmd.command = "browse"
     THEN Continue(copyIconToProject(env, run, ui.selected[1]),
                   [ui EXCEPT !.selected = <<>>], "list")
     ELSE Continue(copyIcon(env, run, ui.selected[1]),
                   [ui EXCEPT !.selected = <<>>], "fzf")
  /\ UNCHANGED <<catalog, env, cmd, searchVars>>

\* Ctrl+C in a prompt: ExitPromptError, caught by the command
Abort ==
  /\ pc \in {"menu", "filterPrompt", "queryPrompt", "setPrompt", "list", "action",
             "destPrompt", "filePrompt"}
  /\ run' = close(Say(run, {"Goodbye"}))
  /\ pc' = "done"
  /\ ui' = NoUi
  /\ UNCHANGED <<catalog, env, cmd, searchVars>>

\* nucleo fzf [-g] [-s]: hasFzf(), getNucleoDb(), the icons, the first runFzf
FzfCommand ==
  /\ pc = "idle"
  /\ \E g \in GroupNames, st \in {Undefined, <<"a">>, <<"x">>} :
       \E c \in {[NoCommand EXCEPT !.command = "fzf", !.group = g, !.set = st]} :
         /\ cmd' = c
         /\ IF env.fault = "fzf"
            THEN run' = Say(NewRun, {"FzfNotInstalled"}) /\ ui' = NoUi /\ pc' = "done"
            ELSE \E r0 \in {getNucleoDb(env, NewRun)} :
                   IF r0.threw
                   THEN run' = r0 /\ ui' = NoUi /\ pc' = "done"
                   ELSE \E loaded \in {fzfLoad(env, r0, catalog, c)} :
                          Continue(loaded.run, [NoUi EXCEPT !.icons = loaded.icons], "fzf")
  /\ UNCHANGED <<catalog, env, searchVars>>

\* fzf could not be started: the promise of runFzf rejects
FzfError ==
  /\ pc = "fzf"
  /\ env.fault = "spawn"
  /\ Continue(Throw(run), ui, "fzf")
  /\ UNCHANGED <<catalog, env, cmd, searchVars>>

\* fzf was cancelled or gave no icon
FzfCancel ==
  /\ pc = "fzf"
  /\ env.fault # "spawn"
  /\ run' = close(Say(run, {"NoIconSelected", "Goodbye"}))
  /\ pc' = "done"
  /\ ui' = NoUi
  /\ UNCHANGED <<catalog, env, cmd, searchVars>>

\* an icon was picked (the first or the last): showIconAndPrompt up to its prompt
FzfSelect ==
  /\ pc = "fzf"
  /\ env.fault # "spawn"
  /\ \E k \in {1, Len(ui.icons)} \cap 1..Len(ui.icons) :
       ui' = [ui EXCEPT !.selected = <<ui.icons[k]>>]
  /\ pc' = "fzfAction"
  /\ UNCHANGED <<catalog, env, cmd, run, searchVars>>

\* action === 'copy'
FzfActionCopy ==
  /\ pc = "fzfAction"
  /\ pc' = "destPrompt"
  /\ UNCHANGED <<catalog, env, cmd, run, ui, searchVars>>

\* action === 'another'
FzfActionAnother ==
  /\ pc = "fzfAction"
  /\ pc' = "fzf"
  /\ ui' = [ui EXCEPT !.selected = <<>>]
  /\ UNCHANGED <<catalog, env, cmd, run, searchVars>>

\* action === 'done', or Ctrl+C in the prompt
FzfActionDone ==
  /\ pc = "fzfAction"
  /\ run' = close(Say(run, {"Goodbye"}))
  /\ pc' = "done"
  /\ ui' = NoUi
  /\ UNCHANGED <<catalog, env, cmd, searchVars>>

NextCommands ==
  \/ SearchCommand \/ SetsCommand \/ CopyCommand \/ PreviewCommand
  \/ BrowseCommand \/ MenuExit \/ MenuFilter \/ FilterAnswer \/ MenuSearch
  \/ QueryAnswer \/ MenuSets \/ SetAnswer \/ MenuAll
  \/ ListPrev \/ ListNext \/ ListBack \/ ListExit \/ ListSelect
  \/ ActionCopy \/ ActionBack \/ CopyDestination \/ CopyFilename \/ Abort
  \/ FzfCommand \/ FzfError \/ FzfCancel \/ FzfSelect
  \/ FzfActionCopy \/ FzfActionAnother \/ FzfActionDone
  \/ Exit

SpecCommands == InitCommands /\ [][NextCommands]_vars

(***************************************************************************)
(* parseQuery on its own, over raw query strings.                          *)
(***************************************************************************)
InitParse ==
  /\ catalog = <<>>
  /\ pc = "idle"
  /\ query = <<>>
  /\ options = NoOptions
  /\ positive = <<>>
  /\ negative = <<>>
  /\ fetched = <<>>
  /\ results = <<>>
  /\ clusters = <<>>
  /\ NoRun

ParseQuery ==
  /\ pc = "idle"
  /\ \E q \in RawQueries :
       /\ query' = q
       /\ positive' = parseQuery(q).positive
       /\ negative' = parseQuery(q).negative
  /\ pc' = "parsed"
  /\ UNCHANGED <<catalog, options, fetched, results, clusters, commandVars>>

NextParse == ParseQuery \/ Close

SpecParse == InitParse /\ [][NextParse]_vars

(***************************************************************************)
(* Vocabulary of the properties.                                           *)
(***************************************************************************)
\* field contains term, case-insensitively; a missing field contains nothing
ContainsCI(field, term) ==
  Includes(ToLowerCase(OrEmpty(field)), ToLowerCase(term))

InAnyField(row, term) ==
  \/ ContainsCI(row.name, term)
  \/ ContainsCI(row.tags, term)
  \/ ContainsCI(row.nucleo_tags, term)
  \/ ContainsCI(row.set_title, term)
  \/ ContainsCI(row.group_title, term)

ResultIds == {results[i].id : i \in 1..Len(results)}

Searched == pc = "searched"

\* C1: no returned entry contains an exclusion term of the query, in any
\* letter case, in its name, tags, nucleo_tags, set title or group title.
C1_ExclusionCorrect ==
  Searched =>
    \A i \in 1..Len(results), j \in 1..Len(negative) :
      ~InAnyField(results[i], negative[j])

\* an entry that only its tags exclude is left out while another is returned
C1_Witness ==
  /\ Searched
  /\ Len(results) > 0
  /\ \E k \in 1..Len(catalog), j \in 1..Len(negative) :
       /\ ContainsCI(catalog[k].tags, negative[j])
       /\ ~ContainsCI(catalog[k].name, negative[j])
       /\ catalog[k].id \notin ResultIds

\* the structural filters as the caller supplied them
PassesSuppliedFilters(row, o) ==
  /\ o.set # Undefined => ContainsCI(row.set_title, o.set)
  /\ o.groupId # UndefinedNum => SetGroupIdOf(row.set_id) = o.groupId
  /\ o.setId # UndefinedNum => row.set_id = o.setId

\* the rows of the catalog that the store's WHERE accepts
CandidateIds ==
  {catalog[k].id : k \in {n \in 1..Len(catalog) :
                            Where(JoinedRow(catalog[n]), positive, negative, options)}}

MatchedTerms(row) == {j \in 1..Len(positive) : InAnyField(row, positive[j])}

\* C2: with inclusion terms, an entry that contains at least one of them in
\* one of the five fields, contains no exclusion term and passes the
\* structural filters is returned when the candidates fit in the limit.
C2_AnyTermSuffices ==
  (Searched /\ Len(positive) > 0 /\ Cardinality(CandidateIds) <= LimitOf(options)) =>
    \A k \in 1..Len(catalog) :
      LET row == JoinedRow(catalog[k])
      IN  ( /\ MatchedTerms(row) # {}
            /\ \A j \in 1..Len(negative) : ~InAnyField(row, negative[j])
            /\ PassesSuppliedFilters(row, options) )
          => row.id \in ResultIds

\* a returned entry matches one of two different inclusion terms only
C2_Witness ==
  /\ Searched
  /\ Len(positive) = 2
  /\ positive[1] # positive[2]
  /\ Cardinality(CandidateIds) <= LimitOf(options)
  /\ \E i \in 1..Len(results) : Cardinality(MatchedTerms(results[i])) = 1

\* code-unit value of a character
CodeUnit(c) ==
  CASE c = "\t" -> 9
    [] c = " " -> 32
    [] c = "%" -> 37
    [] c = "-" -> 45
    [] c = "A" -> 65
    [] c = "B" -> 66
    [] c = "_" -> 95
    [] c = "a" -> 97
    [] c = "b" -> 98
    [] OTHER -> 0

\* a <= b in lexicographic order
LexLeq(a, b) ==
  \/ a = b
  \/ \E n \in 1..Min(Len(a), Len(b)) :
       /\ SubSeq(a, 1, n - 1) = SubSeq(b, 1, n - 1)
       /\ CodeUnit(a[n]) < CodeUnit(b[n])
  \/ (Len(a) <= Len(b) /\ SubSeq(b, 1, Len(a)) = a)

SwapAdjacent(rows, i) ==
  [k \in 1..Len(rows) |->
     IF k = i THEN rows[i + 1] ELSE IF k = i + 1 THEN rows[i] ELSE rows[k]]

\* C4: the output does not depend on the order in which the store returned
\* the fetched rows: exchanging any two neighbouring fetched rows gives the
\* same output sequence.
C4_FetchOrderIrrelevant ==
  Searched =>
    \A i \in 1..(Len(fetched) - 1) :
      RankRows(SwapAdjacent(fetched, i), positive, options) = results

\* the score of one term as the priority list gives it: the highest rule
\* that applies
RuleScores(row, term) ==
  LET name == ToLowerCase(row.name)
  IN  {0}
      \cup (IF name = term THEN {100} ELSE {})
      \cup (IF StartsWith(name, term) THEN {50} ELSE {})
      \cup (IF Includes(name, term) THEN {30} ELSE {})
      \cup (IF ContainsCI(row.tags, term) \/ ContainsCI(row.nucleo_tags, term)
            THEN {10} ELSE {})
      \cup (IF ContainsCI(row.set_title, term) \/ ContainsCI(row.group_title, term)
            THEN {5} ELSE {})

MaxOf(S) == CHOOSE v \in S : \A w \in S : w <= v

FirstRuleScore(row, term) == MaxOf(RuleScores(row, term))

\* C5: for a single-term query every returned entry has exactly the score
\* of the first rule that applies (100 name equals, 50 name starts with,
\* 30 name contains, 10 tags, 5 titles, else 0): 100 when the name equals
\* the term, 10 when only the tags contain it.
C5_TermScore ==
  (Searched /\ Len(positive) = 1) =>
    \A i \in 1..Len(results) :
      LET r == results[i]
          t == positive[1]
      IN  /\ r.relevance = FirstRuleScore(r, t)
          /\ r.relevance \in {100, 50, 30, 10, 5, 0}
          /\ ToLowerCase(r.name) = t => r.relevance = 100
          /\ ( /\ ~ContainsCI(r.name, t)
               /\ (ContainsCI(r.tags, t) \/ ContainsCI(r.nucleo_tags, t)) )
             => r.relevance = 10

\* an exact name match and a match by tags only in one result
C5_Witness ==
  /\ Searched
  /\ Len(positive) = 1
  /\ \E i, j \in 1..Len(results) :
       /\ ToLowerCase(results[i].name) = positive[1]
       /\ results[i].relevance = 100
       /\ ~ContainsCI(results[j].name, positive[1])
       /\ ContainsCI(results[j].tags, positive[1])
       /\ results[j].relevance = 10

RECURSIVE SumTo(_, _)
SumTo(f, n) == IF n = 0 THEN 0 ELSE f[n] + SumTo(f, n - 1)

\* the aggregate of the per-term scores as the claim states it
BoostedSum(row, terms) ==
  LET scores == [j \in 1..Len(terms) |-> FirstRuleScore(row, terms[j])]
      matched == Cardinality({j \in 1..Len(terms) : scores[j] > 0})
  IN  IF Len(terms) > 1 /\ matched > 0
      THEN SumTo(scores, Len(terms)) * matched
      ELSE SumTo(scores, Len(terms))

\* C6: relevance is the sum of the per-term scores, times the number of
\* terms that matched when more than one term was supplied; for two terms
\* an entry matching both has (scoreA + scoreB) * 2 and an entry matching
\* only the first has scoreA.
C6_Aggregate ==
  Searched =>
    \A i \in 1..Len(results) :
      LET r == results[i]
      IN  /\ r.relevance = BoostedSum(r, positive)
          /\ Len(positive) = 2 =>
               LET a == FirstRuleScore(r, positive[1])
                   b == FirstRuleScore(r, positive[2])
               IN  /\ (a > 0 /\ b > 0) => r.relevance = (a + b) * 2
                   /\ (a > 0 /\ b = 0) => r.relevance = a

\* two different terms: one entry matches both, another only the first
C6_Witness ==
  /\ Searched
  /\ Len(positive) = 2
  /\ positive[1] # positive[2]
  /\ \E i, j \in 1..Len(results) :
       /\ MatchedTerms(results[i]) = {1, 2}
       /\ results[i].relevance =
            (FirstRuleScore(results[i], positive[1])
               + FirstRuleScore(results[i], positive[2])) * 2
       /\ MatchedTerms(results[j]) = {1}
       /\ results[j].relevance = FirstRuleScore(results[j], positive[1])

\* the positions where a maximal run of non-whitespace characters starts
TokenStarts(q) ==
  {i \in 1..Len(q) : q[i] \notin Whitespace /\ (i = 1 \/ q[i - 1] \in Whitespace)}

\* the end of the run that starts at i
TokenEnd(q, i) ==
  CHOOSE j \in i..Len(q) :
    /\ \A k \in i..j : q[k] \notin Whitespace
    /\ (j = Len(q) \/ q[j + 1] \in Whitespace)

\* the tokens of q, lower-cased, from left to right
Tokens(q) ==
  LET starts == TokenStarts(q)
      nth == CHOOSE f \in [1..Cardinality(starts) -> starts] :
               \A i, j \in 1..Cardinality(starts) : i < j => f[i] < f[j]
  IN  [n \in 1..Cardinality(starts) |->
         ToLowerCase(SubSeq(q, nth[n], TokenEnd(q, nth[n])))]

IsExclusion(t) == t[1] = "-" /\ Len(t) > 1

IsInclusion(t) == ~IsExclusion(t)

Parsed == pc = "parsed"

\* C7: parseQuery lower-cases the query and cuts it at runs of whitespace;
\* in order, a token '-x...' gives the exclusion term 'x...', every other
\* token (a bare '-' too) is an inclusion term; a query without tokens gives
\* two empty lists and the two lists together have one term per token.
C7_ParseQuery ==
  Parsed =>
    LET tokens == Tokens(query)
        excluded == SelectSeq(tokens, IsExclusion)
    IN  /\ positive = SelectSeq(tokens, IsInclusion)
        /\ negative = [n \in 1..Len(excluded) |-> Tail(excluded[n])]
        /\ Len(positive) + Len(negative) = Len(tokens)
        /\ (\A i \in 1..Len(query) : query[i] \in Whitespace) =>
             (positive = <<>> /\ negative = <<>>)

\* a bare '-' and an upper-case exclusion, apart by a run of whitespace
C7_Witness ==
  /\ Parsed
  /\ query = <<"-", " ", "\t", "-", "A">>
  /\ positive = << <<"-">> >>
  /\ negative = << <<"a">> >>

\* the number of rows of the catalog that the statement's WHERE accepts
NumCandidates == Cardinality(CandidateIds)

\* row f comes strictly before the returned entry r in the order of the sort
RanksBefore(f, r) ==
  \/ calculateRelevance(f, positive) > r.relevance
  \/ /\ calculateRelevance(f, positive) = r.relevance
     /\ f.name # r.name
     /\ LexLeq(f.name, r.name)

\* C8: at most limit * 20 rows are fetched, at most limit entries are
\* returned, and they are the first limit of the fetched rows in sorted
\* order: no fetched row that is left out ranks before a returned one.
C8_Window ==
  Searched =>
    /\ OverFetch >= 10
    /\ Len(fetched) <= LimitOf(options) * OverFetch
    /\ Len(results) = Min(LimitOf(options), Len(fetched))
    /\ \A i, j \in 1..Len(results) : i # j => results[i].id # results[j].id
    /\ \A i \in 1..Len(results) :
         \E k \in 1..Len(fetched) :
           /\ fetched[k].id = results[i].id
           /\ fetched[k].name = results[i].name
    /\ \A k \in 1..Len(fetched) :
         fetched[k].id \notin ResultIds =>
           \A i \in 1..Len(results) : ~RanksBefore(fetched[k], results[i])

\* both cuts bite: more candidates than fetched rows, more fetched rows
\* than returned entries, and a better fetched row displaced a worse one
C8_Witness ==
  /\ Searched
  /\ options.limit = 1
  /\ NumCandidates > Len(fetched)
  /\ Len(fetched) = OverFetch
  /\ Len(results) = 1
  /\ results[1].id # fetched[1].id

\* C9: the empty query without filters keeps every entry as a candidate,
\* gives relevance 0 to every returned entry and returns min(n, catalog
\* size) entries in ascending order of name.
C9_EmptyQuery ==
  ( /\ Searched
    /\ query = <<>>
    /\ options.set = Undefined
    /\ options.groupId = UndefinedNum
    /\ options.setId = UndefinedNum ) =>
    /\ NumCandidates = Len(catalog)
    /\ Len(results) = Min(LimitOf(options), Len(catalog))
    /\ \A i \in 1..Len(results) : results[i].relevance = 0
    /\ \A i, j \in 1..Len(results) :
         i < j => LexLeq(results[i].name, results[j].name)

\* fewer entries than the catalog has, and not the one the store gave first
C9_Witness ==
  /\ Searched
  /\ query = <<>>
  /\ options = WithLimit(NoFilters, 1)
  /\ Len(catalog) = 2
  /\ Len(results) = 1
  /\ fetched[1].id # results[1].id

\* C10: every returned entry satisfies every structural filter that was
\* supplied, whatever its value, 0 and the empty string included.
C10_FiltersHold ==
  Searched =>
    \A i \in 1..Len(results) : PassesSuppliedFilters(results[i], options)

(***************************************************************************)
(* Properties of searchIconsClustered.                                     *)
(***************************************************************************)
Clustered == pc = "clustered"

\* the names of the ranked pool and of the returned clusters
PoolNames == {results[i].name : i \in 1..Len(results)}

ClusterNames == {clusters[i].name : i \in 1..Len(clusters)}

\* the positions of the pool's entries of one name, in pool order
PoolPositions(name) == {i \in 1..Len(results) : results[i].name = name}

\* the (group label, set title) style of a pool entry: the group title, or
\* the set title, or 'Set <set_id>'; the set title, or 'Set <set_id>'
StylePair(row) ==
  LET synth == <<"S", "e", "t", " ">> \o ToStr(row.set_id)
      title == IF row.set_title \in {Null, <<>>} THEN synth ELSE row.set_title
      group == IF row.group_title \in {Null, <<>>} THEN title ELSE row.group_title
  IN  <<group, title>>

\* the pool's entries of one name have pairwise different styles
DistinctStyles(name) ==
  \A i, j \in PoolPositions(name) :
    i # j => StylePair(results[i]) # StylePair(results[j])

NoSharedName ==
  \A i, j \in 1..Len(clusters) : i # j => clusters[i].name # clusters[j].name

\* C11 as stated: exactly one cluster for every distinct name of the ranked
\* pool, no two clusters with one name, and for k entries of one name in k
\* different styles exactly one cluster, with k style descriptors.
C11_OnePerName ==
  Clustered =>
    /\ NoSharedName
    /\ \A n \in PoolNames :
         /\ \E i \in 1..Len(clusters) : clusters[i].name = n
         /\ DistinctStyles(n) =>
              \E i \in 1..Len(clusters) :
                /\ clusters[i].name = n
                /\ Len(clusters[i].styles) = Cardinality(PoolPositions(n))

\* C11 amended: no two clusters share a name, every cluster has a name of
\* the pool, min(limit || 50, number of distinct names) clusters are
\* returned, and a returned cluster whose k pool entries have k different
\* styles has exactly k style descriptors, one per entry.
C11_OnePerKeptName ==
  Clustered =>
    /\ NoSharedName
    /\ ClusterNames \subseteq PoolNames
    /\ Len(clusters) = Min(LimitOrDefault(options), Cardinality(PoolNames))
    /\ \A i \in 1..Len(clusters) :
         DistinctStyles(clusters[i].name) =>
           /\ Len(clusters[i].styles) = Cardinality(PoolPositions(clusters[i].name))
           /\ {clusters[i].styles[k].id : k \in 1..Len(clusters[i].styles)}
                = {results[j].id : j \in PoolPositions(clusters[i].name)}

\* two entries of one name in two styles of one group give one cluster
\* with two descriptors
C11_Witness ==
  /\ Clustered
  /\ Len(results) = 2
  /\ Len(clusters) = 1
  /\ Len(clusters[1].styles) = 2
  /\ clusters[1].styles[1].group_title = clusters[1].styles[2].group_title
  /\ clusters[1].styles[1].set_title # clusters[1].styles[2].set_title

\* C12: in every returned cluster no two style descriptors have the same
\* (group_title, set_title) pair, whether or not the entries have a set
\* title.
C12_NoDuplicateStyle ==
  Clustered =>
    \A i \in 1..Len(clusters) :
      \A a, b \in 1..Len(clusters[i].styles) :
        a # b =>
          <<clusters[i].styles[a].group_title, clusters[i].styles[a].set_title>>
            # <<clusters[i].styles[b].group_title, clusters[i].styles[b].set_title>>

\* the merged tags an entry gives: curated, else auxiliary, else empty
FirstTags(row) ==
  IF row.tags \notin {Null, <<>>} THEN row.tags
  ELSE IF row.nucleo_tags \notin {Null, <<>>} THEN row.nucleo_tags
  ELSE <<>>

FirstPosition(name) ==
  CHOOSE i \in PoolPositions(name) : \A j \in PoolPositions(name) : i <= j

\* C13: the tags of a cluster are those of the first pool entry of its name
\* (curated tags, else auxiliary tags, else the empty string), whatever the
\* later entries of the name hold; for the two 'arrow-right' entries, query
\* 'arrow' with limit 10 gives one cluster with two style descriptors and
\* the tags 'direction,navigate'.
C13_FirstSeenTags ==
  Clustered =>
    /\ \A i \in 1..Len(clusters) :
         clusters[i].tags = FirstTags(results[FirstPosition(clusters[i].name)])
    /\ ( /\ catalog = ArrowCatalog
         /\ query = ArrowQuery
         /\ options = ArrowOptions )
       => /\ Len(clusters) = 1
          /\ clusters[1].name = ArrowRight
          /\ Len(clusters[1].styles) = 2
          /\ clusters[1].tags = DirectionNavigate

\* the 'arrow-right' scenario: the second entry has other tags
C13_Witness ==
  /\ Clustered
  /\ catalog = ArrowCatalog
  /\ query = ArrowQuery
  /\ options = ArrowOptions
  /\ Len(results) = 2
  /\ FirstTags(results[2]) # FirstTags(results[1])
  /\ clusters[1].tags = DirectionNavigate

(***************************************************************************)
(* The commands: the handle, the failures, the reports.                    *)
(***************************************************************************)
\* the action of the command has returned or thrown
Done == pc = "done"

\* a command is at one of its prompts
Prompting == pc \notin {"idle", "done"}

\* C14: in every command, a handle that was opened is closed exactly once
\* on every way out (completion, return after a report, thrown error, abort
\* of a prompt), it stays open until then, and no operation of the store
\* is invoked on a handle that is not open.
C14_ClosedOnce ==
  /\ ~run.stale
  /\ Prompting => run.handle = "open" /\ run.closes = 0
  /\ Done => \/ run.handle = "none" /\ run.closes = 0
             \/ run.handle = "closed" /\ run.closes = 1

\* the copy command returned early after it reported a name it did not
\* find, and the handle is closed
C14_Witness ==
  /\ Done
  /\ cmd.command = "copy"
  /\ "NotFound" \in run.out
  /\ run.lastCall.op = "getIconByName"
  /\ run.handle = "closed"
  /\ run.closes = 1

\* C15: no failure of the store, of the file system or of the image
\* encoder leaves the action of a command as an uncaught exception: a
\* command that is over has not thrown.
C15_NothingUncaught == Done => ~run.threw

\* name is given and is part of the title of no style group and of no
\* ungrouped set
UnknownGroupName(name) ==
  /\ TruthyStr(name)
  /\ \A g \in GroupsTable : ~ContainsCI(g.title, name)
  /\ \A s \in SetsTable : s.group_id = NullId => ~ContainsCI(s.title, name)

\* the run of a command that takes --group into account: search, fzf, and
\* copy by name
UsesGroupFilter ==
  \/ cmd.command \in {"search", "fzf"}
  \/ cmd.command = "copy" /\ ~TruthyStr(cmd.id) /\ TruthyStr(cmd.name)

\* the store answers and fzf is installed
StoreAnswers == env.fault \notin {"open", "query", "fzf"}

\* C16: in search, copy and fzf, a --group name that matches neither a
\* style group nor an ungrouped set is reported with the list of the valid
\* names, and no search or lookup is run without the filter.
C16_UnknownGroupReported ==
  (pc # "idle" /\ UsesGroupFilter /\ UnknownGroupName(cmd.group) /\ StoreAnswers)
    => /\ {"UnknownGroup", "AvailableGroups"} \subseteq run.out
       /\ run.lastCall.op \notin {"searchIcons", "searchIconsClustered", "getIconByName"}

\* the copy command is over and its lookup gave an icon
CopyFoundIcon ==
  /\ Done
  /\ cmd.command = "copy"
  /\ run.lastCall.op \in {"getIconById", "getIconByName"}
  /\ run.out \cap {"NotFound", "InvalidId", "NameRequired", "UnknownGroup"} = {}

\* C17: when the asset file of the chosen icon is not on disk, the copy
\* command and 'Copy to project' of browse and of fzf report the missing
\* asset, write nothing (no directory, no file) and raise no uncaught error.
C17_MissingAssetReported ==
  (env.assets = {} /\ env.fault = "none")
    => /\ run.written = {}
       /\ ~run.threw
       /\ "Copied" \notin run.out
       /\ CopyFoundIcon => "AssetMissing" \in run.out

\* the rows of the catalog that the last lookup of the run asks for: the
\* icon of the id typed, or the icons of exactly the name typed within the
\* group or set the lookup was given
LookupRows ==
  {i \in 1..Len(catalog) :
     IF run.lastCall.op = "getIconById"
     THEN ToStr(catalog[i].id) = cmd.id
     ELSE /\ catalog[i].name = cmd.name
          /\ TruthyNum(run.lastCall.groupId)
               => SetGroupIdOf(catalog[i].set_id) = run.lastCall.groupId
          /\ TruthyNum(run.lastCall.setId)
               => catalog[i].set_id = run.lastCall.setId}

\* copy or preview is over, its last call was a lookup the store answered
LookedUp ==
  /\ Done
  /\ cmd.command \in {"copy", "preview"}
  /\ run.lastCall.op \in {"getIconById", "getIconByName"}
  /\ env.fault # "query"

\* C18: a lookup by exact name or by id that finds no row does not throw;
\* copy and preview then print a not-found message, create no directory,
\* write no file and close the handle.
C18_NotFoundHandled ==
  (LookedUp /\ LookupRows = {})
    => /\ "NotFound" \in run.out
       /\ ~run.threw
       /\ run.written = {}
       /\ "Copied" \notin run.out
       /\ run.handle = "closed"
       /\ run.closes = 1

\* copy was asked for a name that is part of the names of the catalog but
\* the name of no icon, where the files could have been written
C18_Witness ==
  /\ LookedUp
  /\ LookupRows = {}
  /\ cmd.command = "copy"
  /\ run.lastCall.op = "getIconByName"
  /\ \E i \in 1..Len(catalog) : ContainsCI(catalog[i].name, cmd.name)
  /\ env.fault = "none"
  /\ env.assets # {}
  /\ ~cmd.stdout
  /\ "NotFound" \in run.out

\* row matches an inclusion term of the query by its name (exactly, as a
\* prefix or as a substring)
MatchesByName(row) ==
  \E j \in 1..Len(positive) : ContainsCI(row.name, positive[j])

\* row matches the query, and only through its tags or the titles of its
\* set and group
MatchesOnlyElsewhere(row) ==
  /\ ~MatchesByName(row)
  /\ \E j \in 1..Len(positive) : InAnyField(row, positive[j])

\* every entry that matches by name comes before every entry that matches
\* only elsewhere
NameMatchesFirst ==
  \A i, j \in 1..Len(results) :
    (MatchesByName(results[i]) /\ MatchesOnlyElsewhere(results[j])) => i < j

CatalogPosition(row) == CHOOSE i \in 1..Len(catalog) : catalog[i].id = row.id

Descriptors ==
  UNION {{clusters[i].styles[k] : k \in 1..Len(clusters[i].styles)} :
           i \in 1..Len(clusters)}

\* <asset_root>/<set_id>/<id>.svg
AssetPath(set_id, id) ==
  IconsPath \o <<"/">> \o ToStr(set_id) \o <<"/">> \o ToStr(id)
            \o <<".", "s", "v", "g">>

\* pairs (set_id, id) whose digits could be confused: 1 and 12, 11 and 2, ...
PathPairs == {0, 1, 2, 11, 12, 21, 112} \X {1, 2, 11, 12, 21, 112}

\* C20: getIconPath is a function of (set_id, id) alone: the path is
\* <asset_root>/<set_id>/<id>.svg whatever the other fields of the entry
\* are, and no other pair (set_id, id) has the same path.
C20_IconPath ==
  Clustered =>
    \A d \in Descriptors :
      /\ d.path = AssetPath(d.set_id, d.id)
      /\ getIconPath([set_id |-> d.set_id, id |-> d.id]) = d.path
      /\ \A e \in Descriptors :
           e.path = d.path => (e.set_id = d.set_id /\ e.id = d.id)
      /\ \A p \in PathPairs :
           getIconPath([set_id |-> p[1], id |-> p[2]]) = d.path
             => p = <<d.set_id, d.id>>

\* two entries of one set, of two names, have been given their paths, and
\* so has an entry whose path is the path of a pair of PathPairs
C20_Witness ==
  /\ Clustered
  /\ \E d, e \in Descriptors : d.set_id = e.set_id /\ d.id # e.id
  /\ \E d \in Descriptors : <<d.set_id, d.id>> \in PathPairs

\* C21: for a query with two or more inclusion terms, an entry that
\* matches strictly more of the terms than another entry has a strictly
\* higher relevance, whatever the quality of the matches.
C21_MoreTermsScoreHigher ==
  (Searched /\ Len(positive) >= 2)
    => \A i, j \in 1..Len(results) :
         Cardinality(MatchedTerms(results[i])) > Cardinality(MatchedTerms(results[j]))
           => results[i].relevance > results[j].relevance

\* the relevances of the pool entries of a name
PoolRelevances(name) == {results[i].relevance : i \in PoolPositions(name)}

\* C22: the relevance of each returned cluster is the maximum relevance
\* over all pool entries of the cluster's name, those whose style
\* descriptor was dropped as a duplicate included.
C22_MaxRelevance ==
  Clustered =>
    \A k \in 1..Len(clusters) :
      /\ clusters[k].relevance \in PoolRelevances(clusters[k].name)
      /\ \A v \in PoolRelevances(clusters[k].name) : v <= clusters[k].relevance

\* a cluster of two pool entries of different relevance, the query
\* having an inclusion term
C22_Witness ==
  /\ Clustered
  /\ Len(positive) > 0
  /\ \E k \in 1..Len(clusters) :
       /\ Cardinality(PoolRelevances(clusters[k].name)) > 1
       /\ clusters[k].relevance > 0

\* C23: the pool is searched with five times the caller's limit, the
\* clusters come sorted by descending relevance with ties in ascending name
\* order, and at most `limit` clusters are returned for every limit >= 0
\* the caller supplies (the default 50 standing in for an absent limit).
C23_AtMostLimit ==
  Clustered =>
    /\ Len(results) <= PoolFactor * LimitOf(options)
    /\ \A i, j \in 1..Len(clusters) : i < j => Compare(clusters[i], clusters[j]) <= 0
    /\ Len(clusters) <= LimitOf(options)

\* the pool entries a style descriptor was made from
DescriptorEntries(d) == {results[j] : j \in {i \in 1..Len(results) : results[i].id = d.id}}

\* C24: the group label of a style descriptor is the group title of its
\* pool entry if present, otherwise the set title if present, otherwise
\* 'Set ' followed by the set id; the set title of the descriptor is the
\* set title if present, otherwise 'Set ' followed by the set id.
C24_GroupLabel ==
  Clustered =>
    \A d \in Descriptors :
      /\ DescriptorEntries(d) # {}
      /\ \A row \in DescriptorEntries(d) :
           <<d.group_title, d.set_title>> = StylePair(row)

\* descriptors have been made for an entry with a set title and no group
\* and for an entry with neither
C24_Witness ==
  /\ Clustered
  /\ \E d \in Descriptors : \E row \in DescriptorEntries(d) :
       row.group_title = Null /\ row.set_title # Null
  /\ \E d \in Descriptors : \E row \in DescriptorEntries(d) :
       row.group_title = Null /\ row.set_title = Null

\* an entry without tags and without set and group rows
Missing(row) ==
  /\ row.tags = Null
  /\ row.nucleo_tags = Null
  /\ row.set_title = Null
  /\ row.group_title = Null

\* the inclusion terms the name of a row contains, in query order
NameTerms(row) ==
  LET InName(t) == ContainsCI(row.name, t)
  IN  SelectSeq(positive, InName)

\* the entries of the catalog without tags, set row and group row
MissingRows ==
  {row \in {JoinedRow(catalog[i]) : i \in 1..Len(catalog)} : Missing(row)}

\* C25: an entry whose tags and joined set and group rows are null is
\* searched as if they were empty strings: it is a candidate when its name
\* contains an inclusion term (or there is none) and no exclusion term, so
\* an exclusion term never removes it through a missing field, and it
\* scores what the terms its name contains score, 0 for the others.
C25_MissingAsEmpty ==
  Clustered =>
    \A row \in MissingRows :
      /\ ( /\ StructuralClauses(row, options)
           /\ Len(positive) > 0 => NameTerms(row) # <<>>
           /\ \A k \in 1..Len(negative) : ~ContainsCI(row.name, negative[k]) )
           => \E j \in 1..Len(results) : results[j].id = row.id
      /\ \A j \in 1..Len(results) :
           results[j].id = row.id =>
             /\ \A k \in 1..Len(positive) :
                  ~ContainsCI(row.name, positive[k]) => TermScore(results[j], positive[k]) = 0
             /\ results[j].relevance = calculateRelevance(row, NameTerms(row))

\* such an entry has been scored for a query with a term that its name
\* does not contain
MissingScored ==
  /\ Clustered
  /\ \E row \in MissingRows : \E j \in 1..Len(results) :
       /\ results[j].id = row.id
       /\ Len(NameTerms(row)) < Len(positive)
       /\ results[j].relevance > 0

\* such an entry has passed an exclusion term
C25_Witness ==
  /\ Clustered
  /\ Len(negative) > 0
  /\ \E row \in MissingRows : \E j \in 1..Len(results) : results[j].id = row.id

\* the joined rows of the catalog that the store's WHERE accepts
CandidateRows ==
  {row \in {JoinedRow(catalog[n]) : n \in 1..Len(catalog)} :
     Where(row, positive, negative, options)}

\* C26: the result holds the `limit` best candidates of the whole catalog:
\* no candidate that is left out has a strictly higher relevance than a
\* returned entry, and an entry whose name is the single term of the query
\* is in the result when the limit is at least 1 and the filters pass
\* (unless entries of the same exact name fill the whole result).
C26_BestOfCatalog ==
  Searched =>
    /\ \A row \in CandidateRows :
         row.id \notin ResultIds =>
           \A i \in 1..Len(results) :
             calculateRelevance(row, positive) <= results[i].relevance
    /\ (Len(positive) = 1 /\ LimitOf(options) >= 1) =>
         \A row \in CandidateRows :
           ToLowerCase(row.name) = positive[1] =>
             \/ row.id \in ResultIds
             \/ /\ Len(results) = LimitOf(options)
                /\ \A i \in 1..Len(results) : ToLowerCase(results[i].name) = positive[1]

\* C27: the candidate predicate of the store and the scorer agree: with a
\* non-empty inclusion list every returned entry has relevance >= 5, for
\* every term text, terms holding '%' or '_' included.
C27_ScorerAgrees ==
  (Searched /\ Len(positive) > 0) =>
    \A i \in 1..Len(results) : results[i].relevance >= 5

\* the position in the pool of the entry a descriptor carries the id of
PoolPositionOf(d) == CHOOSE j \in 1..Len(results) : results[j].id = d.id

\* the number of descriptors of the first n clusters
RECURSIVE CountStyles(_)
CountStyles(n) == IF n = 0 THEN 0 ELSE CountStyles(n - 1) + Len(clusters[n].styles)

\* C28: every returned cluster has at least one style descriptor; every
\* descriptor comes from a pool entry of the cluster's name, carries its id
\* and set_id and the path getIconPath gives it, and has a non-empty group
\* title and set title; the descriptors of a cluster stand in pool order,
\* and all clusters together have at most as many as the pool has entries.
C28_Descriptors ==
  Clustered =>
    /\ \A k \in 1..Len(clusters) :
         /\ Len(clusters[k].styles) >= 1
         /\ \A n \in 1..Len(clusters[k].styles) :
              LET d == clusters[k].styles[n]
              IN  /\ \E j \in PoolPositions(clusters[k].name) :
                       /\ results[j].id = d.id
                       /\ results[j].set_id = d.set_id
                       /\ getIconPath(results[j]) = d.path
                  /\ d.group_title \notin {Null, <<>>}
                  /\ d.set_title \notin {Null, <<>>}
         /\ \A m, n \in 1..Len(clusters[k].styles) :
              m < n => PoolPositionOf(clusters[k].styles[m])
                         < PoolPositionOf(clusters[k].styles[n])
    /\ CountStyles(Len(clusters)) <= Len(results)

\* a cluster with two descriptors and one with a descriptor of an entry
\* without set row have been returned
C28_Witness ==
  /\ Clustered
  /\ \E k \in 1..Len(clusters) : Len(clusters[k].styles) >= 2
  /\ \E d \in Descriptors : d.set_title = <<"S", "e", "t", " ">> \o ToStr(d.set_id)

\* the prompts of browseIcons: the list, the action on an icon, and the two
\* prompts of the copy
InBrowseIcons(p) ==
  cmd.command = "browse" /\ p \in {"list", "action", "destPrompt", "filePrompt"}

\* the last page of the list, 0 for an empty list
LastPage(u) == IF TotalPages(u) > 0 THEN TotalPages(u) - 1 ELSE 0

\* C29: in the icon list of the browser the page stays between 0 and
\* max(0, totalPages - 1) whatever is chosen; the page goes back only from
\* a page > 0 and forward only from a page < totalPages - 1, and no choice
\* made in the list changes the icons that are browsed.
C29_PageInRange ==
  [][ /\ InBrowseIcons(pc)' =>
           (ui'.page >= 0 /\ ui'.page <= LastPage(ui'))
      /\ (InBrowseIcons(pc) /\ InBrowseIcons(pc)') =>
           /\ ui'.icons = ui.icons
           /\ ui'.page < ui.page => (ui.page > 0 /\ ui'.page = ui.page - 1)
           /\ ui'.page > ui.page =>
                (ui.page < TotalPages(ui) - 1 /\ ui'.page = ui.page + 1) ]_vars

\* an icon of the second page has been selected
C29_Witness ==
  /\ cmd.command = "browse"
  /\ pc = "action"
  /\ ui.page = 1
  /\ TotalPages(ui) = 2

\* at most one of groupId and setId is given
AtMostOneId(o) == o.groupId = UndefinedNum \/ o.setId = UndefinedNum

\* C30: in the browser the filter is consistent after any filter-menu
\* choices: its type is 'group' exactly when it has a group and no set,
\* 'set' exactly when it has a set and no group, 'none' exactly when it has
\* neither; 'back' leaves it as it is; and the options made from it, and
\* every call of the store, carry at most one of groupId and setId.
C30_FilterConsistent ==
  (cmd.command = "browse" /\ Prompting) =>
    /\ ui.filter.type \in {"none", "group", "set"}
    /\ ui.filter.type = "group" <=> (ui.filter.group # <<>> /\ ui.filter.set = <<>>)
    /\ ui.filter.type = "set" <=> (ui.filter.set # <<>> /\ ui.filter.group = <<>>)
    /\ ui.filter.type = "none" <=> (ui.filter.group = <<>> /\ ui.filter.set = <<>>)
    /\ NewFilter(ui.filter, [action |-> "back", group |-> <<>>, set |-> <<>>]) = ui.filter
    /\ AtMostOneId(getFilterQueryOptions(ui.filter))
    /\ AtMostOneId(run.lastCall)

\* a list is browsed under a set filter, and the store was asked with its
\* set id
C30_Witness ==
  /\ cmd.command = "browse"
  /\ pc = "list"
  /\ ui.filter.type = "set"
  /\ run.lastCall.op = "searchIcons"
  /\ run.lastCall.setId # UndefinedNum
====
